---------------------------- MODULE Spec2Model ----------------------------
(***************************************************************************)
(* DraftSensei backend: the meta-attribute draft engine                    *)
(* (app/services/meta_draft_engine.py, class MetaDraftEngine).             *)
(* Its lane selector and the loading of its catalog are part of it; the   *)
(* table-driven engine (app/services/draft_engine.py) has a section of     *)
(* its own.                                                                *)
(*                                                                         *)
(* Numbers.  The engine computes in Python floats.  Scores are modelled as *)
(* exact rationals (a numerator over a denominator, or an integer part     *)
(* plus a proper fraction), and a score printed with n decimals is the     *)
(* rational rounded half-even to n decimals.  The adaptive weights are     *)
(* kept in binary64: a weight is [c, e], the value c/100 + e * 2^-57/100,  *)
(* and every += / -= of _calculate_dynamic_weights rounds to the nearest   *)
(* binary64 value, so that the sign of a weight is the sign Python         *)
(* computes.                                                               *)
(* A score that lies exactly on half a cent is rounded to the even cent,    *)
(* where the float of the engine may fall on either side of the half.      *)
(***************************************************************************)
EXTENDS Integers, Sequences, FiniteSets, TLC

VARIABLES
    heroes_data,       \* the catalog: sequence of [name, meta], in insertion order
    suggestion_count,  \* self.suggestion_count: hero name -> times returned
    calls,             \* number of ranking calls made on this engine
    appearances,       \* history: hero name -> number of calls that returned it
    last,              \* the last ranking call: its arguments, what it read, what it returned
    pinned,            \* the request a repeating caller sends again and again
    threads,           \* concurrent callers: the position and the locals of each
    store,             \* the heroes table the engine was constructed over
    advised,           \* what the last suggest_best_role_and_heroes call returned
    hero_picks,        \* the last DraftEngine call: its request and the list it returned
    synergy_query      \* a get_synergy_score call: its two heroes and, once made, its value

vars ==
    <<heroes_data, suggestion_count, calls, appearances, last, pinned, threads, store,
      advised, hero_picks, synergy_query>>

-----------------------------------------------------------------------------
(* Bounds of the model.                                                    *)

MaxCalls == 3      \* ranking calls per engine in Spec
MaxRepeat == 14    \* ranking calls per engine in SpecRepeat
MaxEnemy == 3      \* longest enemy list of a request in SpecScore
MaxAlly == 2       \* longest ally list of a request in SpecScore
MaxAdvice == 2     \* lane-selector calls per engine in SpecLane
MaxLoad == 2       \* ranking calls per engine in SpecLoad
MaxDraftAlly == 4  \* longest ally list of a request in SpecDraft
MaxDraftEnemy == 2 \* longest enemy list of a request in SpecDraft

-----------------------------------------------------------------------------
(* Small helpers.                                                          *)

Min(a, b) == IF a <= b THEN a ELSE b
Max(a, b) == IF a >= b THEN a ELSE b

RECURSIVE Gcd(_, _)
Gcd(a, b) == IF b = 0 THEN a ELSE Gcd(b, a % b)

Lcm(a, b) == (a \div Gcd(a, b)) * b

Range(s) == {s[i] : i \in 1..Len(s)}

RECURSIVE SumSeq(_)
SumSeq(s) == IF s = <<>> THEN 0 ELSE Head(s) + SumSeq(Tail(s))

RECURSIVE SelectSeqBy(_, _)
\* list comprehension [x for x in s if x not in drop]
SelectSeqBy(s, drop) ==
    IF s = <<>> THEN <<>>
    ELSE IF Head(s) \in drop THEN SelectSeqBy(Tail(s), drop)
         ELSE <<Head(s)>> \o SelectSeqBy(Tail(s), drop)

\* round-half-even of the rational n/d (d > 0, n >= 0) to an integer
RoundDiv(n, d) ==
    LET q == n \div d
        r == n % d
    IN  IF 2 * r < d THEN q
        ELSE IF 2 * r > d THEN q + 1
        ELSE IF q % 2 = 0 THEN q ELSE q + 1

\* dict.get(key, default)
Get(m, k, default) == IF k \in DOMAIN m THEN m[k] ELSE default

-----------------------------------------------------------------------------
(* Hero records.  hero.get_meta()['attributes'] is a dict of dicts; the    *)
(* attribute names are unique across the groups, so a meta is modelled as  *)
(* one flat function from the attribute names that are present, and a      *)
(* missing group is the absence of all its names.                          *)

\* a complete bundle with one rating per group
Mk(role, lanes, c, s, u, r, p) ==
    [ burst_damage |-> c, sustained_damage |-> c, dps |-> c, aoe_damage |-> c,
      anti_squishy |-> c, anti_tank |-> c, poke |-> c,
      tankiness |-> s, mobility |-> s, escape |-> s, shields |-> s, regen |-> s,
      crowd_control |-> u, team_heal |-> u, team_buff |-> u,
      range |-> r, engage |-> r, waveclear |-> r, peel |-> r,
      early_game |-> p, mid_game |-> p, late_game |-> p, scaling |-> p,
      primary_role |-> role, lane_priority |-> lanes ]

Assassin ==
    [ Mk("Assassin", <<"Jungle">>, 4, 1, 2, 1, 4) EXCEPT
        !.burst_damage = 5, !.tankiness = 2, !.mobility = 5, !.escape = 5,
        !.engage = 4, !.waveclear = 3, !.early_game = 3 ]

Mage ==
    [ Mk("Mage", <<"Mid Lane", "Gold Lane">>, 4, 2, 1, 5, 4) EXCEPT
        !.burst_damage = 3, !.anti_squishy = 3, !.anti_tank = 3, !.poke = 5,
        !.tankiness = 1, !.regen = 1, !.team_heal = 0, !.team_buff = 0,
        !.engage = 1, !.peel = 1, !.early_game = 3 ]

Tank ==
    [ Mk("Tank", <<"Roam", "EXP Lane">>, 1, 2, 5, 1, 3) EXCEPT
        !.tankiness = 5, !.escape = 1, !.shields = 1, !.team_heal = 0,
        !.team_buff = 1, !.engage = 5, !.waveclear = 2, !.peel = 4,
        !.scaling = 2 ]

Marksman ==
    [ Mk("Marksman", <<"Gold Lane">>, 3, 2, 1, 5, 5) EXCEPT
        !.dps = 5, !.sustained_damage = 5, !.burst_damage = 2, !.anti_tank = 4,
        !.poke = 2, !.tankiness = 1, !.shields = 0, !.regen = 1,
        !.engage = 0, !.waveclear = 3, !.peel = 0, !.early_game = 1,
        !.mid_game = 3 ]

Bruiser ==
    [ Mk("Mage", <<"EXP Lane", "Jungle", "Roam", "Mid Lane">>, 3, 4, 2, 2, 4) EXCEPT
        !.sustained_damage = 4, !.shields = 5, !.mobility = 3, !.escape = 2,
        !.team_buff = 0, !.team_heal = 0, !.waveclear = 4, !.peel = 3,
        !.early_game = 2 ]

Support ==
    [ Mk("Support", <<"Roam">>, 1, 2, 3, 3, 3) EXCEPT
        !.team_heal = 5, !.team_buff = 4, !.peel = 5, !.engage = 1 ]

\* every rating at the maximum
Perfect == Mk("Fighter", <<"Jungle", "EXP Lane">>, 5, 5, 5, 5, 5)

\* like Perfect, but squishy: the ally every synergy heuristic fires for
Carry == [ Mk("Fighter", <<"Gold Lane">>, 5, 5, 5, 5, 5) EXCEPT !.tankiness = 2 ]

\* a fighter with every rating 0 and no lane affinity
Blank == Mk("Fighter", <<>>, 0, 0, 0, 0, 0)

\* 'attributes' is present but holds nothing
Sparse == [ x \in {} |-> 0 ]

Row(n, m) == [ name |-> n, meta |-> m ]

\* The catalogs an engine is constructed over (the rows of the store that
\* carry attributes, in query order).
CatalogFull ==
    << Row("Lancelot", Assassin), Row("Chang'e", Mage), Row("Tigreal", Tank),
       Row("Miya", Marksman), Row("Esmeralda", Bruiser), Row("Valentina", Mage),
       Row("Estes", Support) >>

CatalogSmall == << Row("Lancelot", Assassin), Row("Chang'e", Mage) >>

CatalogEdge ==
    << Row("Lancelot", Perfect), Row("Chang'e", Carry), Row("Tigreal", Tank),
       Row("Miya", Sparse), Row("Zilong", Blank), Row("Valentina", Perfect) >>

Catalogs == { CatalogFull, CatalogSmall, CatalogEdge }

\* a row of the heroes table; meta_json is <<>> where the column is empty
Hero(n, meta_json) == [ name |-> n, meta_json |-> meta_json ]

\* Hero.get_meta(): the parsed column, {} where it is empty
GetMeta(hero) ==
    IF hero.meta_json = <<>> THEN [ x \in {} |-> 0 ] ELSE hero.meta_json[1]

\* rows that carry no 'attributes': an empty column, and reasoning alone
Unloaded ==
    << Hero("Fanny", <<>>), Hero("Ling", << [ reasoning |-> "high mobility" ] >>) >>

\* the rows a catalog is loaded from
Stored(catalog) ==
    [ i \in 1..Len(catalog) |->
        Hero(catalog[i].name, << [ attributes |-> catalog[i].meta ] >>) ]

\* the tables the engines are constructed over
Stores == { Unloaded \o Stored(catalog) : catalog \in Catalogs }

\* a bundle that holds the combat group and nothing else
CombatOnly ==
    [ burst_damage |-> 2, sustained_damage |-> 5, dps |-> 5, aoe_damage |-> 3,
      anti_squishy |-> 3, anti_tank |-> 4, poke |-> 2 ]

\* a table with a hero whose bundle is incomplete
StorePartial == Stored(CatalogSmall) \o << Hero("Miya", << [ attributes |-> CombatOnly ] >>) >>

\* the tables of SpecLoad: also no row at all, and no row with attributes
LoadStores == Stores \cup { <<>>, Unloaded, StorePartial }

\* if meta and 'attributes' in meta
Loadable(hero) == DOMAIN GetMeta(hero) # {} /\ "attributes" \in DOMAIN GetMeta(hero)

\* _load_heroes_from_db
LoadHeroesFromDb(heroes) ==
    [ i \in 1..Len(SelectSeq(heroes, Loadable)) |->
        Row(SelectSeq(heroes, Loadable)[i].name,
            GetMeta(SelectSeq(heroes, Loadable)[i]).attributes) ]

-----------------------------------------------------------------------------
(* Catalog access: self.heroes_data is a dict keyed by hero name.          *)

CatalogNames == { heroes_data[i].name : i \in 1..Len(heroes_data) }

Known(name) == name \in CatalogNames

CatalogIndex(name) == CHOOSE i \in 1..Len(heroes_data) : heroes_data[i].name = name

MetaOf(name) == heroes_data[CatalogIndex(name)].meta

\* self.role_map
role_map ==
    [ exp |-> "EXP Lane", jungle |-> "Jungle", mid |-> "Mid Lane",
      gold |-> "Gold Lane", roam |-> "Roam" ]

LaneCodes == <<"exp", "jungle", "mid", "gold", "roam">>

-----------------------------------------------------------------------------
(* Binary64 arithmetic on weights.  A weight [c, e] stands for the number  *)
(* c/100 + e * U with U = 2^-57 / 100: c is the decimal value in           *)
(* hundredths, e the distance of the binary64 value from it.  In units of  *)
(* U the value is X = c * 2^57 + e, and a binary64 number in the binade    *)
(* whose spacing is s * 2^-57 is one whose X is a multiple of 100 * s.     *)

RECURSIVE Pow2Mod(_, _)
\* 2^n modulo m
Pow2Mod(n, m) == IF n = 0 THEN 1 % m ELSE (2 * Pow2Mod(n - 1, m)) % m

\* spacing, in units of 2^-57, of the binary64 numbers around c/100 + e*U;
\* 0 where every multiple of 2^-57 is representable (below 2^-5)
Spacing(c, e) ==
    IF c < 4 THEN 0
    ELSE IF c <= 6 THEN 1
    ELSE IF c <= 12 THEN 2
    ELSE IF c < 25 \/ (c = 25 /\ e < 0) THEN 4
    ELSE IF c < 50 \/ (c = 50 /\ e < 0) THEN 8
    ELSE IF c < 100 \/ (c = 100 /\ e < 0) THEN 16
    ELSE 32

\* 2^57 modulo 100 * s and modulo 200 * s, for every spacing s
Pow57 == [ m \in { 100 * s : s \in {1, 2, 4, 8, 16, 32, 64} } |-> Pow2Mod(57, m) ]

\* X modulo m, for X = c * 2^57 + e
Residue(c, e, m) == (c * Pow57[m] + e) % m

\* e moved so that X becomes the multiple of m nearest to it, r being
\* X modulo m; a tie goes to the even multiple
RoundAt(c, e, m, r) ==
    IF r = 0 THEN e
    ELSE IF 2 * r < m THEN e - r
    ELSE IF 2 * r > m THEN e + (m - r)
    ELSE IF Residue(c, e, 2 * m) >= m THEN e + (m - r) ELSE e - r

\* the residual of the binary64 number nearest to c/100 + e*U (ties to even)
RoundF(c, e) ==
    IF Spacing(c, e) = 0 THEN e
    ELSE RoundAt(c, e, 100 * Spacing(c, e), Residue(c, e, 100 * Spacing(c, e)))

\* the decimal literals c/100 of the source, as Python reads them
Literals == [ c \in {5, 10, 15, 20, 25, 35} |-> [ c |-> c, e |-> RoundF(c, 0) ] ]

Lit(c) == Literals[c]

\* x + y and x - y on floats
FAdd(x, y) == [ c |-> x.c + y.c, e |-> RoundF(x.c + y.c, x.e + y.e) ]
FSub(x, y) == [ c |-> x.c - y.c, e |-> RoundF(x.c - y.c, x.e - y.e) ]

\* v < 0 for a float v
FNegative(v) == v.c < 0 \/ (v.c = 0 /\ v.e < 0)

-----------------------------------------------------------------------------
(* Adaptive weights.                                                       *)

\* self.base_weights
base_weights ==
    [ counter |-> Lit(35), synergy |-> Lit(25), team_composition |-> Lit(20),
      pick_priority |-> Lit(15), role_fit |-> Lit(5) ]

WeightKeys == <<"counter", "synergy", "team_composition", "pick_priority", "role_fit">>

\* _identify_missing_roles: the lane names no known ally has as primary lane
IdentifyMissingRoles(ally_picks) ==
    LET filled_roles ==
            { MetaOf(ally_picks[i]).lane_priority[1] :
                i \in { j \in 1..Len(ally_picks) :
                          /\ Known(ally_picks[j])
                          /\ Get(MetaOf(ally_picks[j]), "lane_priority", <<>>) # <<>> } }
    IN  { l \in {"EXP Lane", "Jungle", "Mid Lane", "Gold Lane", "Roam"} :
            l \notin filled_roles }

\* _has_win_condition
HasWinCondition(ally_picks) ==
    \E i \in 1..Len(ally_picks) :
        /\ Known(ally_picks[i])
        /\ Get(MetaOf(ally_picks[i]), "dps", 0) >= 4
        /\ \/ Get(MetaOf(ally_picks[i]), "late_game", 0) >= 4
           \/ Get(MetaOf(ally_picks[i]), "scaling", 0) >= 4

\* the predicates of the five adaptive rules, in the source's order
RuleLateDraft(enemy_picks, ally_picks) == Len(enemy_picks) + Len(ally_picks) >= 4
RuleEnemyPattern(enemy_picks) == Len(enemy_picks) >= 3
RuleMissingRole(ally_picks, current_role) ==
    /\ current_role # ""
    /\ current_role \in DOMAIN role_map
    /\ role_map[current_role] \in IdentifyMissingRoles(ally_picks)
RuleManyBans(banned_heroes) == Len(banned_heroes) >= 6
RuleWinCondition(ally_picks) == HasWinCondition(ally_picks)

\* the five rules of _calculate_dynamic_weights, each applied to the weights
\* the rules before it left
ApplyLateDraft(w, enemy_picks, ally_picks) ==
    IF RuleLateDraft(enemy_picks, ally_picks)
    THEN [ w EXCEPT !.team_composition = FAdd(@, Lit(10)),
                    !.synergy = FAdd(@, Lit(10)),
                    !.pick_priority = FSub(@, Lit(10)) ]
    ELSE w

ApplyEnemyPattern(w, enemy_picks) ==
    IF RuleEnemyPattern(enemy_picks)
    THEN [ w EXCEPT !.counter = FAdd(@, Lit(15)), !.synergy = FSub(@, Lit(10)) ]
    ELSE w

ApplyMissingRole(w, ally_picks, current_role) ==
    IF RuleMissingRole(ally_picks, current_role)
    THEN [ w EXCEPT !.role_fit = FAdd(@, Lit(15)), !.pick_priority = FSub(@, Lit(5)) ]
    ELSE w

ApplyManyBans(w, banned_heroes) ==
    IF RuleManyBans(banned_heroes)
    THEN [ w EXCEPT !.pick_priority = FAdd(@, Lit(5)) ]
    ELSE w

\* ApplyWinCondition with the two keys exchanged
ApplyWinConditionExchanged(w, ally_picks) ==
    IF RuleWinCondition(ally_picks)
    THEN [ w EXCEPT !.counter = FAdd(@, Lit(10)), !.synergy = FSub(@, Lit(5)) ]
    ELSE w

ApplyWinCondition(w, ally_picks) ==
    IF RuleWinCondition(ally_picks)
    THEN [ w EXCEPT !.synergy = FAdd(@, Lit(10)), !.counter = FSub(@, Lit(5)) ]
    ELSE w

\* the weights after the five rules, before normalisation
AdjustedWeights(banned_heroes, enemy_picks, ally_picks, current_role) ==
    ApplyWinCondition(
        ApplyManyBans(
            ApplyMissingRole(
                ApplyEnemyPattern(
                    ApplyLateDraft(base_weights, enemy_picks, ally_picks),
                    enemy_picks),
                ally_picks, current_role),
            banned_heroes),
        ally_picks)

\* sum(weights.values()), in hundredths
TotalWeight(w) ==
    w.counter.c + w.synergy.c + w.team_composition.c + w.pick_priority.c + w.role_fit.c

\* Normalise without the division by the total
NormaliseSkipped(w) ==
    [ k \in DOMAIN w |-> [ num |-> w[k].c, err |-> w[k].e, den |-> 100 ] ]

\* {k: v / total_weight}: a share is [num, err, den], the float
\* num/100 + err*U over the total den/100
Normalise(w) ==
    [ k \in DOMAIN w |->
        [ num |-> w[k].c, err |-> w[k].e,
          den |-> IF TotalWeight(w) > 0 THEN TotalWeight(w) ELSE 100 ] ]

\* _calculate_dynamic_weights
CalculateDynamicWeights(banned_heroes, enemy_picks, ally_picks, current_role) ==
    Normalise(AdjustedWeights(banned_heroes, enemy_picks, ally_picks, current_role))

-----------------------------------------------------------------------------
(* The five scoring functions.  A score is a rational [n, d], d > 0.       *)

Rat(n, d) == [ n |-> n, d |-> d ]

RECURSIVE KnownOnly(_)
\* the names of a pick list that are in the catalog, repeats kept
KnownOnly(picks) ==
    IF picks = <<>> THEN <<>>
    ELSE IF Known(Head(picks)) THEN <<Head(picks)>> \o KnownOnly(Tail(picks))
         ELSE KnownOnly(Tail(picks))

\* the counter points of one hero against one catalog enemy, before the cap
CounterPoints(hero_meta, enemy_meta) ==
    LET enemy_tankiness == Get(enemy_meta, "tankiness", 3)
        hero_anti_squishy == Get(hero_meta, "anti_squishy", 0)
        hero_anti_tank == Get(hero_meta, "anti_tank", 0)
        enemy_cc == Get(enemy_meta, "crowd_control", 0)
        hero_mobility == Get(hero_meta, "mobility", 0)
        hero_escape == Get(hero_meta, "escape", 0)
        enemy_range_val == Get(enemy_meta, "range", 3)
        hero_poke == Get(hero_meta, "poke", 0)
        enemy_mobility == Get(enemy_meta, "mobility", 3)
        hero_engage == Get(hero_meta, "engage", 0)
        enemy_shields == Get(enemy_meta, "shields", 0)
        enemy_regen == Get(enemy_meta, "regen", 0)
        hero_burst == Get(hero_meta, "burst_damage", 0)
    IN    (IF enemy_tankiness <= 2 /\ hero_anti_squishy >= 4 THEN hero_anti_squishy * 5
           ELSE IF enemy_tankiness <= 2 /\ hero_anti_squishy >= 3 THEN hero_anti_squishy * 3
           ELSE 0)
        + (IF enemy_tankiness >= 4 /\ hero_anti_tank >= 4 THEN hero_anti_tank * 5
           ELSE IF enemy_tankiness >= 4 /\ hero_anti_tank >= 3 THEN hero_anti_tank * 3
           ELSE 0)
        + (IF enemy_cc >= 4 /\ (hero_mobility >= 4 \/ hero_escape >= 4) THEN 20
           ELSE IF enemy_cc >= 3 /\ (hero_mobility >= 3 \/ hero_escape >= 3) THEN 10
           ELSE 0)
        + (IF enemy_range_val <= 2 /\ hero_poke >= 4 THEN hero_poke * 4
           ELSE IF enemy_range_val <= 2 /\ hero_poke >= 3 THEN hero_poke * 2
           ELSE 0)
        + (IF enemy_mobility <= 2 /\ hero_engage >= 4 THEN hero_engage * 4 ELSE 0)
        + (IF enemy_shields + enemy_regen <= 3 /\ hero_burst >= 4 THEN hero_burst * 4
           ELSE IF enemy_shields + enemy_regen <= 3 /\ hero_burst >= 3 THEN hero_burst * 2
           ELSE 0)

\* the mean of the capped points over the catalog enemies ks, 60 without any
CounterMean(hero_meta, ks) ==
    IF Len(ks) > 0
    THEN Rat(SumSeq([ i \in 1..Len(ks) |->
                        Min(CounterPoints(hero_meta, MetaOf(ks[i])), 100) ]),
             Len(ks))
    ELSE Rat(60, 1)

\* CalculateCounterScore with the mean taken over every name of the list
CalculateCounterScoreOverAll(hero_meta, enemy_picks) ==
    IF enemy_picks = <<>> THEN Rat(60, 1)
    ELSE Rat(SumSeq([ i \in 1..Len(KnownOnly(enemy_picks)) |->
                        Min(CounterPoints(hero_meta, MetaOf(KnownOnly(enemy_picks)[i])), 100) ]),
             Len(enemy_picks))

\* _calculate_counter_score
CalculateCounterScore(hero_meta, enemy_picks) ==
    IF enemy_picks = <<>> THEN Rat(60, 1)
    ELSE CounterMean(hero_meta, KnownOnly(enemy_picks))

\* the synergy points of one hero with one catalog ally, before the cap
SynergyPoints(hero_meta, ally_meta) ==
    LET hero_tankiness == Get(hero_meta, "tankiness", 0)
        ally_dps == Get(ally_meta, "dps", 0)
        hero_engage == Get(hero_meta, "engage", 0)
        ally_aoe == Get(ally_meta, "aoe_damage", 0)
        hero_cc == Get(hero_meta, "crowd_control", 0)
        ally_burst == Get(ally_meta, "burst_damage", 0)
        hero_peel == Get(hero_meta, "peel", 0)
        ally_tankiness == Get(ally_meta, "tankiness", 3)
        hero_heal == Get(hero_meta, "team_heal", 0)
        hero_buff == Get(hero_meta, "team_buff", 0)
        ally_sustained == Get(ally_meta, "sustained_damage", 0)
        ally_engage == Get(ally_meta, "engage", 0)
        hero_mobility == Get(hero_meta, "mobility", 0)
        ally_mobility == Get(ally_meta, "mobility", 0)
    IN    (IF hero_tankiness >= 4 /\ ally_dps >= 4 THEN 20 ELSE 0)
        + (IF hero_engage >= 4 /\ ally_aoe >= 4 THEN 25 ELSE 0)
        + (IF hero_cc >= 3 /\ ally_burst >= 4 THEN 20 ELSE 0)
        + (IF hero_peel >= 3 /\ ally_tankiness <= 2 THEN 18 ELSE 0)
        + (IF (hero_heal >= 3 \/ hero_buff >= 3) /\ ally_sustained >= 4 THEN 22 ELSE 0)
        + (IF hero_engage >= 4 /\ ally_engage >= 4 THEN 15 ELSE 0)
        + (IF hero_mobility >= 4 /\ ally_mobility >= 4 THEN 12 ELSE 0)

\* the mean of the capped points over the catalog allies ks, 60 without any
SynergyMean(hero_meta, ks) ==
    IF Len(ks) > 0
    THEN Rat(SumSeq([ i \in 1..Len(ks) |->
                        Min(SynergyPoints(hero_meta, MetaOf(ks[i])), 100) ]),
             Len(ks))
    ELSE Rat(60, 1)

\* _calculate_synergy_score
CalculateSynergyScore(hero_meta, ally_picks) ==
    IF ally_picks = <<>> THEN Rat(60, 1)
    ELSE SynergyMean(hero_meta, KnownOnly(ally_picks))

\* team_stats of _calculate_team_composition_score: the sum of one rating
\* over the catalog allies ks
TeamStat(ks, key) == SumSeq([ i \in 1..Len(ks) |-> Get(MetaOf(ks[i]), key, 0) ])

\* the dps of the catalog allies ks whose primary role is (mage = TRUE) or is
\* not (mage = FALSE) "Mage"
TeamDamage(ks, mage) ==
    SumSeq([ i \in 1..Len(ks) |->
               IF (Get(MetaOf(ks[i]), "primary_role", "") = "Mage") = mage
               THEN Get(MetaOf(ks[i]), "dps", 0) ELSE 0 ])

\* the gaps of the ally team (ks its catalog members), each with its worth
\* and whether the hero fills it
CompositionGaps(hero_meta, ally_picks, ks) ==
    << [ open |-> Len(ally_picks) >= 2 /\ TeamStat(ks, "tankiness") < 8,
         worth |-> 15, fills |-> Get(hero_meta, "tankiness", 0) >= 4 ],
       [ open |-> TeamDamage(ks, TRUE) < 10,
         worth |-> 15, fills |-> Get(hero_meta, "primary_role", "None") = "Mage" ],
       [ open |-> TeamDamage(ks, FALSE) < 10,
         worth |-> 15,
         fills |-> Get(hero_meta, "primary_role", "None")
                       \in {"Marksman", "Assassin", "Fighter"} ],
       [ open |-> TeamStat(ks, "crowd_control") < 5,
         worth |-> 10, fills |-> Get(hero_meta, "crowd_control", 0) >= 3 ],
       [ open |-> TeamStat(ks, "engage") < 8,
         worth |-> 12, fills |-> Get(hero_meta, "engage", 0) >= 4 ],
       [ open |-> TeamStat(ks, "waveclear") < 8,
         worth |-> 8, fills |-> Get(hero_meta, "waveclear", 0) >= 4 ],
       [ open |-> /\ TeamStat(ks, "sustained_damage") >= 12
                  /\ TeamStat(ks, "peel") < 6,
         worth |-> 10, fills |-> Get(hero_meta, "peel", 0) >= 3 ] >>

\* the catalog allies ks that have the hero's primary role
RoleCount(hero_meta, ks) ==
    Cardinality({ i \in 1..Len(ks) :
                    Get(MetaOf(ks[i]), "primary_role", "None")
                        = Get(hero_meta, "primary_role", "") })

\* gaps_filled for the gaps g, the redundancy penalty included
GapsFilled(g, role_count) ==
    SumSeq([ i \in 1..Len(g) |-> IF g[i].open /\ g[i].fills THEN g[i].worth ELSE 0 ])
    - (IF role_count >= 2 THEN 15 ELSE 0)

\* max_gaps for the gaps g
MaxGaps(g) == SumSeq([ i \in 1..Len(g) |-> IF g[i].open THEN g[i].worth ELSE 0 ])

\* Clamp without the lower limit
ClampAbove(n, d) == IF n > d THEN Rat(100, 1) ELSE Rat(100 * n, d)

\* max(min(score, 100), 0) for score = n / d * 100
Clamp(n, d) ==
    IF n < 0 THEN Rat(0, 1) ELSE IF n > d THEN Rat(100, 1) ELSE Rat(100 * n, d)

\* the end of _calculate_team_composition_score
CompositionScore(gaps_filled, max_gaps) ==
    IF max_gaps = 0 THEN Rat(60, 1) ELSE Clamp(gaps_filled, max_gaps)

CompositionOver(hero_meta, g, ks) ==
    CompositionScore(GapsFilled(g, RoleCount(hero_meta, ks)), MaxGaps(g))

CompositionAmong(hero_meta, ally_picks, ks) ==
    CompositionOver(hero_meta, CompositionGaps(hero_meta, ally_picks, ks), ks)

\* _calculate_team_composition_score
CalculateTeamCompositionScore(hero_meta, ally_picks) ==
    CompositionAmong(hero_meta, ally_picks, KnownOnly(ally_picks))

\* the perfect-stat factor f/20 of _calculate_pick_priority_score
PerfectStatFactor(stats) ==
    IF Cardinality({ i \in 1..Len(stats) : stats[i] >= 5 }) >= 5 THEN 17
    ELSE IF Cardinality({ i \in 1..Len(stats) : stats[i] >= 5 }) >= 4 THEN 18
    ELSE IF Cardinality({ i \in 1..Len(stats) : stats[i] >= 5 }) >= 3 THEN 19
    ELSE 20

\* the priority in 6000ths:
\*   (C/4 * 0.35 + S/3 * 0.25 + P/100 * 0.30 + U * 0.10) * 20 * f/20
\*     = (525 C + 500 S + 18 P + 600 U) * f / 6000
\* for the combat sum C, the survivability sum S, the power curve P in
\* hundredths, the crowd control U and the perfect-stat factor f/20.
PriorityOf(combat_stats, surv_stats, power, utility_score) ==
    Rat(Min((  525 * SumSeq(combat_stats) + 500 * SumSeq(surv_stats)
             + 18 * power + 600 * utility_score )
            * PerfectStatFactor(combat_stats \o surv_stats),
            600000),
        6000)

\* _calculate_pick_priority_score
CalculatePickPriorityScore(hero_meta) ==
    PriorityOf(<< Get(hero_meta, "burst_damage", 0),
                  Get(hero_meta, "sustained_damage", 0),
                  Get(hero_meta, "dps", 0),
                  Get(hero_meta, "aoe_damage", 0) >>,
               << Get(hero_meta, "tankiness", 0),
                  Get(hero_meta, "mobility", 0),
                  Get(hero_meta, "escape", 0) >>,
                 20 * Get(hero_meta, "early_game", 0)
               + 35 * Get(hero_meta, "mid_game", 0)
               + 35 * Get(hero_meta, "late_game", 0)
               + 10 * Get(hero_meta, "scaling", 0),
               Get(hero_meta, "crowd_control", 0))

\* list.index: the first position of x in s (x occurs in s)
IndexOf(s, x) == CHOOSE i \in 1..Len(s) : s[i] = x /\ \A j \in 1..(i - 1) : s[j] # x

\* LaneIndexScore with the third lane scored like the later ones
LaneIndexScoreFlat(lane_index) ==
    IF lane_index = 0 THEN 100
    ELSE IF lane_index = 1 THEN 75
    ELSE 30

\* the score of the lane at 0-based position lane_index of the affinity list
LaneIndexScore(lane_index) ==
    IF lane_index = 0 THEN 100
    ELSE IF lane_index = 1 THEN 75
    ELSE IF lane_index = 2 THEN 50
    ELSE 30

RoleFitOf(lane_priorities, target_lane) ==
    IF target_lane \in Range(lane_priorities)
    THEN LaneIndexScore(IndexOf(lane_priorities, target_lane) - 1)
    ELSE 5

\* _calculate_role_fit_score
CalculateRoleFitScore(hero_meta, current_role) ==
    RoleFitOf(Get(hero_meta, "lane_priority", <<>>),
              Get(role_map, current_role, current_role))

\* PenaltyOf with the two middle steps exchanged
PenaltyOfExchanged(count) ==
    IF count = 0 THEN 0
    ELSE IF count <= 2 THEN 10
    ELSE IF count <= 4 THEN 5
    ELSE 15

\* the penalty, in percent, for a hero returned count times before
PenaltyOf(count) ==
    IF count = 0 THEN 0
    ELSE IF count <= 2 THEN 5
    ELSE IF count <= 4 THEN 10
    ELSE 15

\* _calculate_diversity_penalty with 20 percent from the fifth appearance on
CalculateDiversityPenaltySteep(counts, hero_name) ==
    IF Get(counts, hero_name, 0) >= 5 THEN 20 ELSE PenaltyOf(Get(counts, hero_name, 0))

\* _calculate_diversity_penalty
CalculateDiversityPenalty(counts, hero_name) == PenaltyOf(Get(counts, hero_name, 0))

-----------------------------------------------------------------------------
(* The final score of a hero.                                              *)

RECURSIVE LcmSeq(_)
LcmSeq(ds) == IF ds = <<>> THEN 1 ELSE Lcm(Head(ds), LcmSeq(Tail(ds)))

\* sum of scores[i] * ks[i] over the common denominator L, as a mixed number
\* [int, num, den]: int + num/den with 0 <= num < den
WeightedOver(scores, ks, L) ==
    [ int |-> SumSeq([ i \in 1..Len(scores) |-> (scores[i].n * ks[i]) \div scores[i].d ])
              + (SumSeq([ i \in 1..Len(scores) |->
                     ((scores[i].n * ks[i]) % scores[i].d) * (L \div scores[i].d) ])
                 \div L),
      num |-> SumSeq([ i \in 1..Len(scores) |->
                     ((scores[i].n * ks[i]) % scores[i].d) * (L \div scores[i].d) ])
              % L,
      den |-> L ]

WeightedSum(scores, ks) ==
    WeightedOver(scores, ks, LcmSeq([ i \in 1..Len(scores) |-> scores[i].d ]))

\* fl + rem/D (0 <= rem < D) rounded half-even to an integer
HalfEven(fl, rem, D) ==
    IF 2 * rem < D THEN fl
    ELSE IF 2 * rem > D THEN fl + 1
    ELSE IF fl % 2 = 0 THEN fl ELSE fl + 1

\* q + M/D rounded half-even to an integer
RoundMixed(q, M, D) == HalfEven(q + (M \div D), M % D, D)

\* c * t / K rounded half-even to an integer, for a mixed number t
ScaledRound(t, K, c) ==
    RoundMixed((c * t.int) \div K,
               ((c * t.int) % K) * t.den + c * t.num,
               t.den * K)

\* t / K > x for a mixed number t and an integer x
Above(t, K, x) == t.int > x * K \/ (t.int = x * K /\ t.num > 0)

\* the reasons of _calculate_hero_score before the top-tier line and the cut
BaseReasons(counter_score, synergy_score, comp_score, priority_score, lane_score, lane_name) ==
       (IF counter_score.n > 70 * counter_score.d
        THEN << <<"Strong counter against enemy team",
                  RoundDiv(counter_score.n, counter_score.d)>> >>
        ELSE <<>>)
    \o (IF synergy_score.n > 70 * synergy_score.d
        THEN << <<"Excellent synergy with allies",
                  RoundDiv(synergy_score.n, synergy_score.d)>> >>
        ELSE <<>>)
    \o (IF comp_score.n > 70 * comp_score.d
        THEN << <<"Fills critical team composition gap">> >> ELSE <<>>)
    \o (IF priority_score.n > 75 * priority_score.d
        THEN << <<"High meta strength hero">> >> ELSE <<>>)
    \o (IF lane_score >= 100 THEN << <<"Primary lane", lane_name>> >>
        ELSE IF lane_score >= 75 THEN << <<"Viable for", lane_name>> >>
        ELSE IF lane_score >= 50 THEN << <<"Situational pick for", lane_name>> >>
        ELSE IF lane_score < 30 THEN << <<"Not suited for", lane_name>> >>
        ELSE <<>>)

\* s[:5]
FirstFive(s) == SubSeq(s, 1, Min(5, Len(s)))

\* Explain without the cut to five reasons
ExplainUncut(final_score, den, reasons, scores) ==
    [ sum |-> final_score, den |-> den,
      reasons |-> IF Above(final_score, den, 80)
                  THEN << <<"Top tier pick", ScaledRound(final_score, den, 10)>> >> \o reasons
                  ELSE reasons,
      scores |-> scores ]

\* the end of _calculate_hero_score: the top-tier line in front, the cut to
\* five reasons, and the values returned
Explain(final_score, den, reasons, scores) ==
    [ sum |-> final_score, den |-> den,
      reasons |-> FirstFive(IF Above(final_score, den, 80)
                            THEN << <<"Top tier pick", ScaledRound(final_score, den, 10)>> >>
                                 \o reasons
                            ELSE reasons),
      scores |-> scores ]

\* the weighted sum of _calculate_hero_score over the five scores
Combine(weights, counter_score, synergy_score, comp_score, priority_score, lane_score, lane_name) ==
    Explain(WeightedSum(<< counter_score, synergy_score, comp_score, priority_score,
                           Rat(lane_score, 1) >>,
                        [ i \in 1..5 |-> weights[WeightKeys[i]].num ]),
            weights.counter.den,
            BaseReasons(counter_score, synergy_score, comp_score, priority_score,
                        lane_score, lane_name),
            [ counter |-> counter_score, synergy |-> synergy_score,
              team_composition |-> comp_score, pick_priority |-> priority_score,
              role_fit |-> Rat(lane_score, 1) ])

\* _calculate_hero_score: [sum, den, reasons, scores].  The final score is
\* sum / den (the weighted sum over the total weight, both in hundredths);
\* scores are the five scores the function computed on the way.
CalculateHeroScore(hero_name, enemy_picks, ally_picks, current_role, banned_heroes) ==
    Combine(CalculateDynamicWeights(banned_heroes, enemy_picks, ally_picks, current_role),
            CalculateCounterScore(MetaOf(hero_name), enemy_picks),
            CalculateSynergyScore(MetaOf(hero_name), ally_picks),
            CalculateTeamCompositionScore(MetaOf(hero_name), ally_picks),
            CalculatePickPriorityScore(MetaOf(hero_name)),
            CalculateRoleFitScore(MetaOf(hero_name), current_role),
            Get(role_map, current_role, current_role))

-----------------------------------------------------------------------------
(* get_pick_suggestions.                                                   *)

\* Candidates with the ally list left out of the unavailable names
CandidatesAmongAllies(banned_heroes, enemy_picks, ally_picks) ==
    SelectSeqBy([ i \in 1..Len(heroes_data) |-> heroes_data[i].name ],
                Range(banned_heroes \o enemy_picks))

\* Candidates with the ban list left out of the unavailable names
CandidatesAmongBans(banned_heroes, enemy_picks, ally_picks) ==
    SelectSeqBy([ i \in 1..Len(heroes_data) |-> heroes_data[i].name ],
                Range(enemy_picks \o ally_picks))

\* candidates: the catalog names, in catalog order, that are in no list
Candidates(banned_heroes, enemy_picks, ally_picks) ==
    SelectSeqBy([ i \in 1..Len(heroes_data) |-> heroes_data[i].name ],
                Range(banned_heroes \o enemy_picks \o ally_picks))

\* final_score *= 1 - diversity_penalty; the entry appended to scored_heroes,
\* its score being round(final_score, 2) in hundredths.  `unpenalized` and
\* `penalty` record final_score before the penalty and the penalty applied,
\* `scores` the five scores behind it.
Penalized(hero_name, s, diversity_penalty) ==
    [ hero |-> hero_name,
      score |-> ScaledRound(s.sum, s.den, 100 - diversity_penalty),
      reasons |-> s.reasons,
      role |-> Get(MetaOf(hero_name), "primary_role", "Unknown"),
      unpenalized |-> [ sum |-> s.sum, den |-> s.den ],
      penalty |-> diversity_penalty,
      scores |-> s.scores ]

\* one turn of the scoring loop
ScoreCandidate(counts, hero_name, banned_heroes, enemy_picks, ally_picks, current_role) ==
    Penalized(hero_name,
              CalculateHeroScore(hero_name, enemy_picks, ally_picks, current_role,
                                 banned_heroes),
              CalculateDiversityPenalty(counts, hero_name))

\* what the caller receives of an entry
Suggestion(x) == [ hero |-> x.hero, score |-> x.score, reasons |-> x.reasons, role |-> x.role ]

RECURSIVE InsertByScoreUnstable(_, _)
\* InsertByScore with x put in front of the entries of its own score
InsertByScoreUnstable(sorted, x) ==
    IF sorted = <<>> THEN <<x>>
    ELSE IF Head(sorted).score > x.score
         THEN <<Head(sorted)>> \o InsertByScoreUnstable(Tail(sorted), x)
         ELSE <<x>> \o sorted

RECURSIVE InsertByScore(_, _)
\* x put behind every entry whose score is at least its own
InsertByScore(sorted, x) ==
    IF sorted = <<>> THEN <<x>>
    ELSE IF Head(sorted).score >= x.score
         THEN <<Head(sorted)>> \o InsertByScore(Tail(sorted), x)
         ELSE <<x>> \o sorted

RECURSIVE SortByScore(_, _)
\* list.sort(key = score, reverse = True): stable, highest score first
SortByScore(sorted, rest) ==
    IF rest = <<>> THEN sorted
    ELSE SortByScore(InsertByScore(sorted, Head(rest)), Tail(rest))

\* the cut to five without the sort
TopFiveUnsorted(scored_heroes) == FirstFive(scored_heroes)

\* scored_heroes[:5] after the sort
TopFive(scored_heroes) == FirstFive(SortByScore(<<>>, scored_heroes))

\* suggestion_count[hero] = n
Store(counts, hero, n) ==
    [ h \in DOMAIN counts \cup {hero} |-> IF h = hero THEN n ELSE counts[h] ]

\* UpdateCounts that leaves the loop after its first turn
UpdateCountsOnce(counts, top_5) ==
    IF top_5 = <<>> THEN counts
    ELSE Store(counts, Head(top_5).hero, Get(counts, Head(top_5).hero, 0) + 1)

RECURSIVE UpdateCounts(_, _)
\* for suggestion in top_5: suggestion_count[hero] = suggestion_count.get(hero, 0) + 1
UpdateCounts(counts, top_5) ==
    IF top_5 = <<>> THEN counts
    ELSE UpdateCounts(Store(counts, Head(top_5).hero, Get(counts, Head(top_5).hero, 0) + 1),
                      Tail(top_5))

\* the scoring loop over the candidates
ScoredHeroes(counts, candidates, banned_heroes, enemy_picks, ally_picks, current_role) ==
    [ i \in 1..Len(candidates) |->
        ScoreCandidate(counts, candidates[i], banned_heroes, enemy_picks, ally_picks,
                       current_role) ]

\* Finish with a counter that starts from an empty table on every call
FinishCountingAfresh(counts, scored_heroes, top_5) ==
    [ scored |-> scored_heroes,
      result |-> [ i \in 1..Len(top_5) |-> Suggestion(top_5[i]) ],
      counts |-> UpdateCounts([ h \in {} |-> 0 ], top_5) ]

\* the end of the call: the counter update and the return
Finish(counts, scored_heroes, top_5) ==
    [ scored |-> scored_heroes,
      result |-> [ i \in 1..Len(top_5) |-> Suggestion(top_5[i]) ],
      counts |-> UpdateCounts(counts, top_5) ]

Rank(counts, scored_heroes) == Finish(counts, scored_heroes, TopFive(scored_heroes))

RankCandidates(counts, candidates, banned_heroes, enemy_picks, ally_picks, current_role) ==
    IF candidates = <<>>
    THEN [ scored |-> <<>>, result |-> <<>>, counts |-> counts ]
    ELSE Rank(counts, ScoredHeroes(counts, candidates, banned_heroes, enemy_picks,
                                   ally_picks, current_role))

\* the whole call from the counter table `counts`: what it scored, what it
\* returns and the table it leaves
RankingCall(counts, banned_heroes, enemy_picks, ally_picks, current_role) ==
    RankCandidates(counts, Candidates(banned_heroes, enemy_picks, ally_picks),
                   banned_heroes, enemy_picks, ally_picks, current_role)

-----------------------------------------------------------------------------
(* suggest_best_role_and_heroes: the lane selector.  The lane scores are   *)
(* exact rationals.                                                        *)

\* str.lower on the lane names of the catalogs
Lower(lane_name) ==
    IF lane_name = "EXP Lane" THEN "exp lane"
    ELSE IF lane_name = "Jungle" THEN "jungle"
    ELSE IF lane_name = "Mid Lane" THEN "mid lane"
    ELSE IF lane_name = "Gold Lane" THEN "gold lane"
    ELSE IF lane_name = "Roam" THEN "roam"
    ELSE lane_name

\* _lane_to_code
LaneToCode(lane_name) ==
    IF \E code \in DOMAIN role_map : role_map[code] = lane_name
    THEN CHOOSE code \in DOMAIN role_map : role_map[code] = lane_name
    ELSE Lower(lane_name)

\* the lane_priority list of a catalog hero
LanesOf(name) == Get(MetaOf(name), "lane_priority", <<>>)

\* filled_lanes of _identify_open_lanes
FilledLanes(ally_picks) ==
    { LaneToCode(LanesOf(ally_picks[i])[1]) :
        i \in { j \in 1..Len(ally_picks) :
                  Known(ally_picks[j]) /\ LanesOf(ally_picks[j]) # <<>> } }

\* _identify_open_lanes
IdentifyOpenLanes(ally_picks) == SelectSeqBy(LaneCodes, FilledLanes(ally_picks))

\* _get_meta_priority_lane with "mid" as the lane of an empty enemy list
GetMetaPriorityLaneMid(enemy_picks, banned_heroes) ==
    IF /\ enemy_picks # <<>>
       /\ Known(enemy_picks[1])
       /\ LanesOf(enemy_picks[1]) # <<>>
       /\ LaneToCode(LanesOf(enemy_picks[1])[1]) \in {"jungle", "mid"}
    THEN LaneToCode(LanesOf(enemy_picks[1])[1])
    ELSE IF enemy_picks = <<>> THEN "mid" ELSE "jungle"

\* _get_meta_priority_lane
GetMetaPriorityLane(enemy_picks, banned_heroes) ==
    IF /\ enemy_picks # <<>>
       /\ Known(enemy_picks[1])
       /\ LanesOf(enemy_picks[1]) # <<>>
       /\ LaneToCode(LanesOf(enemy_picks[1])[1]) \in {"jungle", "mid"}
    THEN LaneToCode(LanesOf(enemy_picks[1])[1])
    ELSE "jungle"

\* the catalog enemies that list the lane, in pick order
InLane(lane_name, picks) ==
    SelectSeq(KnownOnly(picks), LAMBDA name : lane_name \in Range(LanesOf(name)))

\* strength of one enemy, times 50: (dps * 0.4 + burst * 0.3 + late * 0.3) / 5
Strength(meta) ==
    4 * Get(meta, "dps", 0) + 3 * Get(meta, "burst_damage", 0) + 3 * Get(meta, "late_game", 0)

\* the mean strength of the enemies in, 0.3 without any
ThreatOf(in) ==
    IF in = <<>> THEN Rat(3, 10)
    ELSE Rat(SumSeq([ i \in 1..Len(in) |-> Strength(MetaOf(in[i])) ]), 50 * Len(in))

\* _assess_enemy_lane_threat
AssessEnemyLaneThreat(lane, enemy_picks) ==
    ThreatOf(InLane(Get(role_map, lane, lane), enemy_picks))

\* lane_contributions, in tenths
lane_contributions ==
    [ exp |-> [ tankiness |-> 8, physical_damage |-> 6, crowd_control |-> 5 ],
      jungle |-> [ physical_damage |-> 9, mobility |-> 8 ],
      mid |-> [ magic_damage |-> 9, crowd_control |-> 4 ],
      gold |-> [ physical_damage |-> 9, late_game |-> 9 ],
      roam |-> [ tankiness |-> 9, crowd_control |-> 8 ] ]

\* the catalog allies ks whose primary role is (mage = TRUE) or is not
\* (mage = FALSE) "Mage", five points of damage each
TeamDamagePoints(ks, mage) ==
    5 * Cardinality({ i \in 1..Len(ks) :
                        (Get(MetaOf(ks[i]), "primary_role", "") = "Mage") = mage })

\* need_score of _assess_composition_need, in tenths
NeedScore(contributions, ks) ==
      (IF TeamStat(ks, "tankiness") < 8 /\ Get(contributions, "tankiness", 0) > 5
       THEN 4 ELSE 0)
    + (IF TeamDamagePoints(ks, TRUE) < 5 /\ Get(contributions, "magic_damage", 0) > 5
       THEN 3 ELSE 0)
    + (IF TeamDamagePoints(ks, FALSE) < 10 /\ Get(contributions, "physical_damage", 0) > 5
       THEN 3 ELSE 0)

\* _assess_composition_need
AssessCompositionNeed(lane, ally_picks) ==
    IF ally_picks = <<>> THEN Rat(5, 10)
    ELSE Rat(Min(NeedScore(Get(lane_contributions, lane, [ x \in {} |-> 0 ]), KnownOnly(ally_picks)),
                 10),
             10)

\* lane_importance
lane_importance == [ jungle |-> 100, mid |-> 90, exp |-> 80, gold |-> 75, roam |-> 70 ]

\* the rational n/d in lowest terms
Lowest(n, d) == Rat(n \div Gcd(n, d), d \div Gcd(n, d))

\* threat * 40 + importance / 100 * 25, the composition need left out
LaneScoreWithoutNeed(threat, need, importance) ==
    Lowest(800 * threat.n + 5 * importance * threat.d, 20 * threat.d)

\* threat * 40 + need * 35 + importance / 100 * 25
LaneScoreOf(threat, need, importance) ==
    Lowest(800 * threat.n * need.d + 700 * need.n * threat.d
             + 5 * importance * threat.d * need.d,
           20 * threat.d * need.d)

\* the score of one open lane in _get_strategic_lane
LaneScore(lane, enemy_picks, ally_picks) ==
    LaneScoreOf(AssessEnemyLaneThreat(lane, enemy_picks),
                AssessCompositionNeed(lane, ally_picks),
                Get(lane_importance, lane, 50))

\* x < y for rationals
RatLess(x, y) == x.n * y.d < y.n * x.d

\* max(lane_scores, key = lane_scores.get): the first lane of the highest score
FirstMax(lanes, lane_scores) ==
    lanes[CHOOSE i \in 1..Len(lanes) :
            /\ \A j \in 1..Len(lanes) : ~RatLess(lane_scores[i], lane_scores[j])
            /\ \A j \in 1..(i - 1) : RatLess(lane_scores[j], lane_scores[i])]

\* _get_strategic_lane with every lane scored, open or not
GetStrategicLaneOfAll(enemy_picks, ally_picks, open_lanes, banned_heroes) ==
    IF open_lanes = <<>> THEN "mid"
    ELSE FirstMax(LaneCodes,
                  [ i \in 1..Len(LaneCodes) |->
                      LaneScore(LaneCodes[i], enemy_picks, ally_picks) ])

\* _get_strategic_lane
GetStrategicLane(enemy_picks, ally_picks, open_lanes, banned_heroes) ==
    IF open_lanes = <<>> THEN "mid"
    ELSE FirstMax(open_lanes,
                  [ i \in 1..Len(open_lanes) |->
                      LaneScore(open_lanes[i], enemy_picks, ally_picks) ])

\* is_early_draft and not ally_picks
IsFirstPick(enemy_picks, ally_picks) ==
    Len(enemy_picks) + Len(ally_picks) <= 4 /\ ally_picks = <<>>

\* recommended_lane of suggest_best_role_and_heroes
RecommendedLane(banned_heroes, enemy_picks, ally_picks) ==
    IF IsFirstPick(enemy_picks, ally_picks)
    THEN GetMetaPriorityLane(enemy_picks, banned_heroes)
    ELSE GetStrategicLane(enemy_picks, ally_picks, IdentifyOpenLanes(ally_picks),
                          banned_heroes)

\* the reasons of _explain_lane_choice after the first pick
LaneReasons(lane_name, enemy_in_lane, ally_picks) ==
       (IF enemy_in_lane # <<>>
        THEN << <<"Counter enemy", SubSeq(enemy_in_lane, 1, Min(2, Len(enemy_in_lane))),
                  lane_name>> >>
        ELSE <<>>)
    \o (IF Len(ally_picks) >= 2 THEN << <<"Fill remaining position", lane_name>> >>
        ELSE <<>>)

\* _explain_lane_choice
ExplainLaneChoice(lane, enemy_picks, ally_picks, open_lanes, is_early_draft) ==
    IF is_early_draft /\ ally_picks = <<>>
    THEN << <<"First pick", Get(role_map, lane, lane)>> >>
    ELSE IF LaneReasons(Get(role_map, lane, lane),
                        InLane(Get(role_map, lane, lane), enemy_picks), ally_picks) = <<>>
         THEN << <<"Strategic pick", Get(role_map, lane, lane)>> >>
         ELSE LaneReasons(Get(role_map, lane, lane),
                          InLane(Get(role_map, lane, lane), enemy_picks), ally_picks)

\* Advice with the name of the lane reported as its code
AdviceLaneName(recommended_lane, suggestions, enemy_picks, ally_picks) ==
    [ recommended_lane |-> Get(role_map, recommended_lane, recommended_lane),
      lane_code |-> Get(role_map, recommended_lane, recommended_lane),
      suggestions |-> suggestions,
      reasoning |-> ExplainLaneChoice(recommended_lane, enemy_picks, ally_picks,
                                      IdentifyOpenLanes(ally_picks),
                                      Len(enemy_picks) + Len(ally_picks) <= 4) ]

\* the dictionary suggest_best_role_and_heroes returns
Advice(recommended_lane, suggestions, enemy_picks, ally_picks) ==
    [ recommended_lane |-> Get(role_map, recommended_lane, recommended_lane),
      lane_code |-> recommended_lane,
      suggestions |-> suggestions,
      reasoning |-> ExplainLaneChoice(recommended_lane, enemy_picks, ally_picks,
                                      IdentifyOpenLanes(ally_picks),
                                      Len(enemy_picks) + Len(ally_picks) <= 4) ]


-----------------------------------------------------------------------------
(* Requests.                                                               *)

Request(b, e, a, r) == [ banned |-> b, enemy |-> e, ally |-> a, role |-> r ]

\* six bans, the first point at which the many-bans rule fires
SixBans == <<"Fanny", "Ling", "Cici", "Bruno", "Miya", "Valentina">>

\* every name of every catalog
AllBans == <<"Lancelot", "Chang'e", "Tigreal", "Miya", "Esmeralda", "Valentina",
             "Estes", "Zilong">>

\* The drafts one engine is asked about in Spec and SpecRepeat: the first
\* pick, an answer to an enemy jungler, a mid draft, overlapping and repeated
\* names, drafts that leave no candidate, a late draft, a redundant role.
Scenarios ==
    { Request(<<"Fanny">>, <<>>, <<>>, "jungle"),
      Request(<<"Fanny">>, <<"Lancelot">>, <<>>, "jungle"),
      Request(<<"Fanny", "Ling">>, <<"Lancelot">>, <<"Chang'e", "Tigreal">>, "gold"),
      Request(<<"Lancelot", "Lancelot">>, <<"Lancelot", "Unknown">>, <<"Tigreal">>, "mid"),
      Request(<<"Lancelot">>, <<"Chang'e">>, <<"Chang'e">>, "mid"),
      Request(AllBans, <<>>, <<>>, "roam"),
      Request(SixBans, <<"Valentina", "Esmeralda", "Miya">>, <<"Chang'e", "Tigreal">>, "jungle"),
      Request(<<>>, <<"Tigreal">>, <<"Lancelot", "Valentina">>, "exp"),
      Request(<<"Fanny">>, <<"Miya">>, <<"Lancelot">>, "roam") }

RECURSIVE ListsUpTo(_, _)
\* the lists of at most n names that keep the order of `names`, repeats
\* allowed: one list for every multiset of names
ListsUpTo(names, n) ==
    IF names = <<>> \/ n = 0 THEN { <<>> }
    ELSE ListsUpTo(Tail(names), n)
         \cup { <<Head(names)>> \o s : s \in ListsUpTo(names, n - 1) }

BanLists == { <<>>, SixBans }
EnemyNames == <<"Tigreal", "Miya", "Unknown">>
AllyNames == <<"Chang'e", "Tigreal", "Unknown">>
Roles == { "jungle", "" }

EnemyLists == ListsUpTo(EnemyNames, MaxEnemy)
AllyLists == ListsUpTo(AllyNames, MaxAlly)

\* The requests of SpecScore: one call for each of them.
WideRequests ==
    { Request(b, e, a, r) : b \in BanLists, e \in EnemyLists, a \in AllyLists, r \in Roles }

-----------------------------------------------------------------------------
(* The engine as a state machine.                                          *)

EmptyTable == [ x \in {} |-> 0 ]

\* the two callers of SpecConc
Threads == { "t1", "t2" }

\* a caller that has not called yet
Idle ==
    [ pc |-> "idle", req |-> Request(<<>>, <<>>, <<>>, ""), candidates |-> <<>>,
      scored_heroes |-> <<>>, top_5 |-> <<>>, k |-> 0, count |-> 0 ]

NoCall ==
    [ req |-> Request(<<>>, <<>>, <<>>, ""), before |-> EmptyTable,
      weights |-> Normalise(base_weights), scored |-> <<>>, result |-> <<>> ]

\* no get_synergy_score call asked for
NoQuery == [ hero1 |-> "", hero2 |-> "", score |-> << >> ]

\* before any suggest_picks call
NoPicks == [ request |-> << >>, matches |-> << >>, kind |-> "", picks |-> << >> ]

\* before any suggest_best_role_and_heroes call
NoAdvice ==
    [ recommended_lane |-> "", lane_code |-> "", suggestions |-> <<>>, reasoning |-> <<>> ]

\* MetaDraftEngine.__init__ over one of the tables
Init ==
    /\ store \in Stores
    /\ heroes_data = LoadHeroesFromDb(store)
    /\ suggestion_count = EmptyTable
    /\ calls = 0
    /\ appearances = EmptyTable
    /\ last = NoCall
    /\ pinned = NoCall.req
    /\ threads = [ t \in Threads |-> Idle ]
    /\ advised = NoAdvice
    /\ hero_picks = NoPicks
    /\ synergy_query = NoQuery

\* the heroes of a returned list
Appeared(result) == { result[i].hero : i \in 1..Len(result) }

\* history: one more appearance for every hero of the returned list
Noted(seen, result) ==
    [ h \in DOMAIN seen \cup Appeared(result) |->
        Get(seen, h, 0) + (IF h \in Appeared(result) THEN 1 ELSE 0) ]

\* the body of get_pick_suggestions
Ranked(req) ==
    \E out \in { RankingCall(suggestion_count, req.banned, req.enemy, req.ally, req.role) } :
        /\ suggestion_count' = out.counts
        /\ last' = [ req |-> req, before |-> suggestion_count,
                     weights |-> CalculateDynamicWeights(req.banned, req.enemy,
                                                         req.ally, req.role),
                     scored |-> out.scored, result |-> out.result ]
        /\ appearances' = Noted(appearances, out.result)
        /\ calls' = calls + 1
        /\ UNCHANGED <<heroes_data, pinned, threads, store, hero_picks, synergy_query>>

\* engine.get_pick_suggestions(req.banned, req.enemy, req.ally, req.role)
GetPickSuggestions(req) == Ranked(req) /\ UNCHANGED advised

\* engine.suggest_best_role_and_heroes(banned_heroes, enemy_picks, ally_picks)
SuggestBestRoleAndHeroes(banned_heroes, enemy_picks, ally_picks) ==
    \E recommended_lane \in { RecommendedLane(banned_heroes, enemy_picks, ally_picks) } :
        /\ Ranked(Request(banned_heroes, enemy_picks, ally_picks, recommended_lane))
        /\ advised' = Advice(recommended_lane, last'.result, enemy_picks, ally_picks)

\* one engine, asked about one scenario after another
Next == \E req \in Scenarios : calls < MaxCalls /\ GetPickSuggestions(req)

Spec == Init /\ [][Next]_vars

\* a counter table left by earlier calls: a call that bans every hero but
\* one returns that hero alone, so every table over the catalog can be built
WarmCounts == ("Lancelot" :> 1) @@ ("Tigreal" :> 3) @@ ("Valentina" :> 5)

Restrict(table, S) == [ h \in DOMAIN table \cap S |-> table[h] ]

\* an engine, fresh or after such calls
InitScore ==
    /\ store \in Stores
    /\ heroes_data = LoadHeroesFromDb(store)
    /\ suggestion_count \in { EmptyTable, Restrict(WarmCounts, CatalogNames) }
    /\ calls = 0
    /\ appearances = suggestion_count
    /\ last = NoCall
    /\ pinned = NoCall.req
    /\ threads = [ t \in Threads |-> Idle ]
    /\ advised = NoAdvice
    /\ hero_picks = NoPicks
    /\ synergy_query = NoQuery

\* asked once about any of the wide range of drafts
NextScore == \E req \in WideRequests : calls = 0 /\ GetPickSuggestions(req)

SpecScore == InitScore /\ [][NextScore]_vars

\* one engine, asked the same thing again and again
InitRepeat ==
    /\ store \in Stores
    /\ heroes_data = LoadHeroesFromDb(store)
    /\ suggestion_count = EmptyTable
    /\ calls = 0
    /\ appearances = EmptyTable
    /\ last = NoCall
    /\ pinned \in Scenarios
    /\ threads = [ t \in Threads |-> Idle ]
    /\ advised = NoAdvice
    /\ hero_picks = NoPicks
    /\ synergy_query = NoQuery

NextRepeat == calls < MaxRepeat /\ GetPickSuggestions(pinned)

SpecRepeat == InitRepeat /\ [][NextRepeat]_vars

\* a step of NextRepeat seen through the number of calls alone: every step of
\* NextRepeat is one, and one can be taken exactly while NextRepeat can
AskedAgain == calls < MaxRepeat /\ calls' = calls + 1

\* the caller that asks again and again: while another call can be made, one
\* is made
SpecRepeatFair == SpecRepeat /\ WF_calls(AskedAgain)

\* the module-level get_pick_suggestions(db_session, ...): it constructs an
\* engine over the table, whose counter is empty, asks that engine once and
\* returns its list; heroes_data and suggestion_count are then those of the
\* engine just constructed, which no caller keeps
ModuleGetPickSuggestions(req) ==
    \E out \in { RankingCall(EmptyTable, req.banned, req.enemy, req.ally, req.role) } :
        /\ heroes_data = LoadHeroesFromDb(store)
        /\ heroes_data' = LoadHeroesFromDb(store)
        /\ suggestion_count' = out.counts
        /\ last' = [ req |-> req, before |-> EmptyTable,
                     weights |-> CalculateDynamicWeights(req.banned, req.enemy,
                                                         req.ally, req.role),
                     scored |-> out.scored, result |-> out.result ]
        /\ appearances' = Noted(appearances, out.result)
        /\ calls' = calls + 1
        /\ UNCHANGED <<pinned, threads, store, advised, hero_picks, synergy_query>>

\* one process, asked through the module-level function again and again
NextModule == \E req \in Scenarios : calls < MaxCalls /\ ModuleGetPickSuggestions(req)

SpecModule == Init /\ [][NextModule]_vars

-----------------------------------------------------------------------------
(* The lane selector on one engine.                                        *)

Draft(b, e, a) == [ banned |-> b, enemy |-> e, ally |-> a ]

\* the drafts of test_intelligent_draft.py, drafts of enemy picks alone, and
\* drafts that leave one lane, no lane and every lane open
Drafts ==
    { Draft(<<>>, <<>>, <<>>),
      Draft(<<"Fanny">>, <<>>, <<>>),
      Draft(<<"Fanny">>, <<"Lancelot">>, <<>>),
      Draft(<<"Fanny", "Ling">>, <<"Lancelot">>, <<"Chang'e", "Tigreal">>),
      Draft(<<"Fanny", "Ling">>, <<"Valentina", "Esmeralda", "Miya">>,
            <<"Chang'e", "Tigreal">>),
      Draft(<<"Fanny", "Ling">>, <<"Valentina", "Esmeralda", "Miya", "Lancelot">>,
            <<"Chang'e", "Tigreal", "Cici", "Bruno">>),
      Draft(<<>>, <<"Chang'e">>, <<>>),
      Draft(<<>>, <<"Miya">>, <<>>),
      Draft(<<>>, <<"Miya", "Chang'e">>, <<>>),
      Draft(<<>>, <<"Esmeralda">>, <<"Lancelot", "Chang'e", "Tigreal", "Miya">>),
      Draft(<<>>, <<>>, <<"Lancelot", "Chang'e", "Tigreal", "Miya", "Esmeralda">>),
      Draft(<<>>, <<"Lancelot", "Chang'e", "Tigreal", "Miya", "Esmeralda">>, <<>>) }

\* one engine, asked for a lane and its heroes about one draft after another
NextLane ==
    \E draft \in Drafts :
        calls < MaxAdvice /\ SuggestBestRoleAndHeroes(draft.banned, draft.enemy, draft.ally)

SpecLane == Init /\ [][NextLane]_vars

\* an engine constructed over any of the tables, the empty ones included
InitLoad ==
    /\ store \in LoadStores
    /\ heroes_data = LoadHeroesFromDb(store)
    /\ suggestion_count = EmptyTable
    /\ calls = 0
    /\ appearances = EmptyTable
    /\ last = NoCall
    /\ pinned = NoCall.req
    /\ threads = [ t \in Threads |-> Idle ]
    /\ advised = NoAdvice
    /\ hero_picks = NoPicks
    /\ synergy_query = NoQuery

NextLoad == \E req \in Scenarios : calls < MaxLoad /\ GetPickSuggestions(req)

SpecLoad == InitLoad /\ [][NextLoad]_vars

-----------------------------------------------------------------------------
(* The table-driven engine (app/services/draft_engine.py, class            *)
(* DraftEngine, over the registry of app/services/synergy.py).  A call is  *)
(* modelled by the list of HeroPick it returns.  A score is an exact       *)
(* rational [n, d]; score = round(score, 1) and the confidence rounded to  *)
(* two places round half-even.  The rows of MatchHistory that a call reads *)
(* are an input of the call; the request names no player, so that the      *)
(* player preference score is the neutral 60.                              *)

\* the rows of the heroes table: hero.name and hero.role
DraftHeroes ==
    << Row("Franco", "Tank"), Row("Khufra", "Tank"), Row("Yin", "Fighter"),
       Row("Paquito", "Fighter"), Row("Clint", "Marksman"), Row("Gusion", "Assassin"),
       Row("Chang'e", "Mage"), Row("Pharsa", "Mage"), Row("Valentina", "Mage"),
       Row("Estes", "Support"), Row("Fanny", "Assassin"), Row("Cecilion", "Mage") >>

available_heroes == [ i \in 1..Len(DraftHeroes) |-> DraftHeroes[i].name ]

\* self.heroes_data.get(hero, {}).get("role", default)
RoleIn(hero, default) ==
    IF \E i \in 1..Len(DraftHeroes) : DraftHeroes[i].name = hero
    THEN DraftHeroes[CHOOSE i \in 1..Len(DraftHeroes) : DraftHeroes[i].name = hero].meta
    ELSE default

\* SynergySystem.synergy_data, as shipped
synergy_data ==
    ("Lolita" :> (("Yin" :> 85) @@ ("Paquito" :> 80) @@ ("Hanabi" :> 75)
           @@ ("Chang'e" :> 82) @@ ("Floryn" :> 88) @@ ("Cecilion" :> 79)
           @@ ("Granger" :> 77)))
    @@ ("Khufra" :> (("Yin" :> 90) @@ ("Franco" :> 85) @@ ("Gusion" :> 87)
           @@ ("Fanny" :> 89) @@ ("Hanabi" :> 82) @@ ("Pharsa" :> 84)
           @@ ("Valentina" :> 86)))
    @@ ("Franco" :> (("Khufra" :> 85) @@ ("Yin" :> 88) @@ ("Paquito" :> 83)
           @@ ("Clint" :> 80) @@ ("Chang'e" :> 85) @@ ("Pharsa" :> 87)
           @@ ("Moskov" :> 81)))
    @@ ("Johnson" :> (("Odette" :> 95) @@ ("Aurora" :> 92) @@ ("Vale" :> 88)
           @@ ("Cecilion" :> 87) @@ ("Chang'e" :> 90) @@ ("Pharsa" :> 89)
           @@ ("Zhask" :> 85)))
    @@ ("Yin" :> (("Lolita" :> 85) @@ ("Khufra" :> 90) @@ ("Franco" :> 88)
           @@ ("Floryn" :> 82) @@ ("Estes" :> 80) @@ ("Mathilda" :> 84)
           @@ ("Rafaela" :> 79)))
    @@ ("Paquito" :> (("Lolita" :> 80) @@ ("Franco" :> 83) @@ ("Floryn" :> 85)
           @@ ("Estes" :> 87) @@ ("Mathilda" :> 82) @@ ("Angela" :> 84)
           @@ ("Diggie" :> 81)))
    @@ ("Yu Zhong" :> (("Angela" :> 88) @@ ("Estes" :> 85) @@ ("Floryn" :> 87)
           @@ ("Mathilda" :> 83) @@ ("Rafaela" :> 80) @@ ("Diggie" :> 82)
           @@ ("Faramis" :> 79)))
    @@ ("Gusion" :> (("Khufra" :> 87) @@ ("Johnson" :> 85) @@ ("Diggie" :> 88)
           @@ ("Mathilda" :> 90) @@ ("Angela" :> 86) @@ ("Kaja" :> 89)
           @@ ("Franco" :> 84)))
    @@ ("Fanny" :> (("Khufra" :> 89) @@ ("Angela" :> 92) @@ ("Diggie" :> 87)
           @@ ("Mathilda" :> 88) @@ ("Kaja" :> 86) @@ ("Johnson" :> 85)
           @@ ("Franco" :> 83)))
    @@ ("Ling" :> (("Angela" :> 90) @@ ("Mathilda" :> 88) @@ ("Diggie" :> 85)
           @@ ("Kaja" :> 87) @@ ("Johnson" :> 84) @@ ("Khufra" :> 86)
           @@ ("Franco" :> 82)))
    @@ ("Chang'e" :> (("Lolita" :> 82) @@ ("Franco" :> 85) @@ ("Johnson" :> 90)
           @@ ("Atlas" :> 87) @@ ("Tigreal" :> 84) @@ ("Hylos" :> 83)
           @@ ("Grock" :> 81)))
    @@ ("Pharsa" :> (("Khufra" :> 84) @@ ("Franco" :> 87) @@ ("Johnson" :> 89)
           @@ ("Atlas" :> 86) @@ ("Tigreal" :> 85) @@ ("Grock" :> 83)
           @@ ("Hylos" :> 82)))
    @@ ("Valentina" :> (("Khufra" :> 86) @@ ("Johnson" :> 88) @@ ("Atlas" :> 90)
           @@ ("Franco" :> 84) @@ ("Tigreal" :> 87) @@ ("Grock" :> 85)
           @@ ("Hylos" :> 86)))
    @@ ("Cecilion" :> (("Lolita" :> 79) @@ ("Johnson" :> 87) @@ ("Atlas" :> 85)
           @@ ("Franco" :> 82) @@ ("Tigreal" :> 84) @@ ("Grock" :> 83)
           @@ ("Hylos" :> 81)))
    @@ ("Hanabi" :> (("Lolita" :> 75) @@ ("Khufra" :> 82) @@ ("Franco" :> 78)
           @@ ("Johnson" :> 80) @@ ("Atlas" :> 84) @@ ("Tigreal" :> 81)
           @@ ("Grock" :> 79)))
    @@ ("Granger" :> (("Lolita" :> 77) @@ ("Khufra" :> 83) @@ ("Franco" :> 80)
           @@ ("Johnson" :> 82) @@ ("Atlas" :> 85) @@ ("Tigreal" :> 83)
           @@ ("Grock" :> 81)))
    @@ ("Clint" :> (("Franco" :> 80) @@ ("Johnson" :> 84) @@ ("Atlas" :> 87)
           @@ ("Tigreal" :> 85) @@ ("Grock" :> 83) @@ ("Khufra" :> 82)
           @@ ("Lolita" :> 79)))
    @@ ("Moskov" :> (("Franco" :> 81) @@ ("Johnson" :> 83) @@ ("Atlas" :> 86)
           @@ ("Tigreal" :> 84) @@ ("Grock" :> 82) @@ ("Khufra" :> 85)
           @@ ("Lolita" :> 80)))
    @@ ("Floryn" :> (("Lolita" :> 88) @@ ("Yin" :> 82) @@ ("Paquito" :> 85)
           @@ ("Yu Zhong" :> 87) @@ ("Aulus" :> 83) @@ ("Lapu-Lapu" :> 84)
           @@ ("Silvanna" :> 86)))
    @@ ("Estes" :> (("Yin" :> 80) @@ ("Paquito" :> 87) @@ ("Yu Zhong" :> 85)
           @@ ("Aulus" :> 88) @@ ("Lapu-Lapu" :> 86) @@ ("Silvanna" :> 84)
           @@ ("Martis" :> 83)))
    @@ ("Mathilda" :> (("Yin" :> 84) @@ ("Gusion" :> 90) @@ ("Fanny" :> 88)
           @@ ("Ling" :> 88) @@ ("Lancelot" :> 87) @@ ("Hayabusa" :> 85)
           @@ ("Harley" :> 86)))
    @@ ("Angela" :> (("Paquito" :> 84) @@ ("Yu Zhong" :> 88) @@ ("Fanny" :> 92)
           @@ ("Ling" :> 90) @@ ("Gusion" :> 86) @@ ("Lancelot" :> 89)
           @@ ("Hayabusa" :> 87)))

counter_data ==
    ("Khufra" :> (("Fanny" :> 95) @@ ("Gusion" :> 88) @@ ("Ling" :> 90)
           @@ ("Lancelot" :> 85) @@ ("Hayabusa" :> 82) @@ ("Harley" :> 80)
           @@ ("Kagura" :> 83)))
    @@ ("Franco" :> (("Chang'e" :> 88) @@ ("Pharsa" :> 90) @@ ("Cecilion" :> 85)
           @@ ("Zhask" :> 87) @@ ("Valentina" :> 82) @@ ("Lylia" :> 84)
           @@ ("Lunox" :> 83)))
    @@ ("Johnson" :> (("Hanabi" :> 87) @@ ("Granger" :> 85) @@ ("Clint" :> 88)
           @@ ("Moskov" :> 86) @@ ("Wanwan" :> 90) @@ ("Brody" :> 84)
           @@ ("Beatrix" :> 83)))
    @@ ("Yin" :> (("Valentina" :> 92) @@ ("Chang'e" :> 88) @@ ("Pharsa" :> 85)
           @@ ("Cecilion" :> 87) @@ ("Zhask" :> 84) @@ ("Lylia" :> 86)
           @@ ("Lunox" :> 83)))
    @@ ("Paquito" :> (("Hanabi" :> 89) @@ ("Granger" :> 87) @@ ("Clint" :> 85)
           @@ ("Moskov" :> 88) @@ ("Wanwan" :> 86) @@ ("Brody" :> 90)
           @@ ("Beatrix" :> 84)))
    @@ ("Yu Zhong" :> (("Lancelot" :> 88) @@ ("Gusion" :> 85) @@ ("Fanny" :> 82)
           @@ ("Ling" :> 84) @@ ("Hayabusa" :> 87) @@ ("Harley" :> 89)
           @@ ("Kagura" :> 86)))
    @@ ("Gusion" :> (("Chang'e" :> 90) @@ ("Pharsa" :> 88) @@ ("Cecilion" :> 92)
           @@ ("Zhask" :> 87) @@ ("Valentina" :> 85) @@ ("Lylia" :> 89)
           @@ ("Lunox" :> 86)))
    @@ ("Fanny" :> (("Hanabi" :> 85) @@ ("Granger" :> 88) @@ ("Clint" :> 90)
           @@ ("Moskov" :> 87) @@ ("Wanwan" :> 84) @@ ("Brody" :> 89)
           @@ ("Beatrix" :> 86)))
    @@ ("Ling" :> (("Cecilion" :> 88) @@ ("Chang'e" :> 86) @@ ("Pharsa" :> 90)
           @@ ("Zhask" :> 85) @@ ("Valentina" :> 87) @@ ("Lylia" :> 84)
           @@ ("Lunox" :> 89)))
    @@ ("Valentina" :> (("Estes" :> 95) @@ ("Angela" :> 90) @@ ("Floryn" :> 88)
           @@ ("Mathilda" :> 85) @@ ("Rafaela" :> 87) @@ ("Diggie" :> 82)
           @@ ("Kaja" :> 84)))
    @@ ("Chang'e" :> (("Lolita" :> 85) @@ ("Franco" :> 82) @@ ("Johnson" :> 80)
           @@ ("Atlas" :> 88) @@ ("Tigreal" :> 86) @@ ("Grock" :> 84)
           @@ ("Hylos" :> 83)))
    @@ ("Esmeralda" :> (("Chang'e" :> 92) @@ ("Pharsa" :> 90) @@ ("Cecilion" :> 88)
           @@ ("Valentina" :> 85) @@ ("Zhask" :> 87) @@ ("Lylia" :> 89)
           @@ ("Lunox" :> 86)))
    @@ ("Diggie" :> (("Khufra" :> 88) @@ ("Franco" :> 85) @@ ("Atlas" :> 90)
           @@ ("Tigreal" :> 87) @@ ("Johnson" :> 84) @@ ("Grock" :> 86)
           @@ ("Hylos" :> 83)))
    @@ ("Mathilda" :> (("Yu Zhong" :> 85) @@ ("Paquito" :> 82) @@ ("Aulus" :> 88)
           @@ ("Lapu-Lapu" :> 86) @@ ("Silvanna" :> 84) @@ ("Martis" :> 87)
           @@ ("Jawhead" :> 83)))

role_synergies ==
    [ Tank |-> [ Fighter |-> 80, Assassin |-> 75, Mage |-> 85, Marksman |-> 90,
                 Support |-> 70 ],
      Fighter |-> [ Tank |-> 80, Assassin |-> 70, Mage |-> 75, Marksman |-> 65,
                    Support |-> 85 ],
      Assassin |-> [ Tank |-> 75, Fighter |-> 70, Mage |-> 60, Marksman |-> 65,
                     Support |-> 90 ],
      Mage |-> [ Tank |-> 85, Fighter |-> 75, Assassin |-> 60, Marksman |-> 70,
                 Support |-> 80 ],
      Marksman |-> [ Tank |-> 90, Fighter |-> 65, Assassin |-> 65, Mage |-> 70,
                     Support |-> 85 ],
      Support |-> [ Tank |-> 70, Fighter |-> 85, Assassin |-> 90, Mage |-> 80,
                    Marksman |-> 85 ] ]

\* table[a][b] where the registry holds it
Held(table, a, b) == a \in DOMAIN table /\ b \in DOMAIN table[a]

\* get_synergy_score that looks at the row of hero1 alone
GetSynergyScoreOneWay(hero1, hero2) ==
    IF Held(synergy_data, hero1, hero2) THEN synergy_data[hero1][hero2] ELSE 60

\* SynergySystem.get_synergy_score
GetSynergyScore(hero1, hero2) ==
    IF Held(synergy_data, hero1, hero2) THEN synergy_data[hero1][hero2]
    ELSE IF Held(synergy_data, hero2, hero1) THEN synergy_data[hero2][hero1]
    ELSE 60

\* SynergySystem.get_counter_score
GetCounterScore(countering_hero, target_hero) ==
    IF Held(counter_data, countering_hero, target_hero)
    THEN counter_data[countering_hero][target_hero]
    ELSE 50

\* the score of one pair in get_team_synergy, in hundredths
PairScore(hero1, hero2, role1, role2) ==
    GetSynergyScore(hero1, hero2)
      * (IF Held(role_synergies, role1, role2) THEN role_synergies[role1][role2] ELSE 100)

\* total_score of get_team_synergy over heroes, in hundredths
TeamTotal(heroes) ==
    SumSeq([ i \in 1..Len(heroes) |->
               SumSeq([ j \in 1..Len(heroes) |->
                          IF i < j
                          THEN PairScore(heroes[i], heroes[j], RoleIn(heroes[i], "Fighter"),
                                         RoleIn(heroes[j], "Fighter"))
                          ELSE 0 ]) ])

\* the number of pairs of n heroes
PairCount(n) == (n * (n - 1)) \div 2

\* the reasons of one ally in _calculate_synergy_score
AllyReason(ally, synergy) ==
    IF synergy >= 85 THEN << <<"Excellent synergy with", ally, synergy>> >>
    ELSE IF synergy >= 75 THEN << <<"Good synergy with", ally, synergy>> >>
    ELSE <<>>

RECURSIVE AllyReasons(_, _)
AllyReasons(hero, ally_picks) ==
    IF ally_picks = <<>> THEN <<>>
    ELSE AllyReason(Head(ally_picks), GetSynergyScore(hero, Head(ally_picks)))
           \o AllyReasons(hero, Tail(ally_picks))

\* the reasons of _calculate_synergy_score
SynergyReasons(hero, ally_picks) ==
    IF ally_picks = <<>> THEN <<>>
    ELSE AllyReasons(hero, ally_picks)
           \o (IF TeamTotal(Append(ally_picks, hero))
                    >= 8000 * PairCount(Len(ally_picks) + 1)
               THEN << <<"Creates strong team composition",
                         RoundDiv(TeamTotal(Append(ally_picks, hero)),
                                  100 * PairCount(Len(ally_picks) + 1))>> >>
               ELSE <<>>)

\* the reasons of one enemy in _calculate_counter_score
EnemyReason(enemy, counter_strength) ==
    IF counter_strength >= 85 THEN << <<"Hard counters", enemy, counter_strength>> >>
    ELSE IF counter_strength >= 70 THEN << <<"Counters", enemy, counter_strength>> >>
    ELSE IF counter_strength <= 30 THEN << <<"Countered by", enemy, counter_strength>> >>
    ELSE <<>>

RECURSIVE CounterReasons(_, _)
\* the reasons of _calculate_counter_score
CounterReasons(hero, enemy_picks) ==
    IF enemy_picks = <<>> THEN <<>>
    ELSE EnemyReason(Head(enemy_picks), GetCounterScore(hero, Head(enemy_picks)))
           \o CounterReasons(hero, Tail(enemy_picks))

\* role_count[role] of _calculate_role_balance_score
AllyRoleCount(role, ally_picks) ==
    Cardinality({ i \in 1..Len(ally_picks) : RoleIn(ally_picks[i], "Fighter") = role })

\* _get_needed_roles: the priority of the role, 0 where it is not needed
NeededRole(role, ally_picks) ==
    IF role = "Tank" /\ AllyRoleCount("Tank", ally_picks) = 0 THEN 3
    ELSE IF role = "Support" /\ Len(ally_picks) >= 3
              /\ AllyRoleCount("Support", ally_picks) = 0 THEN 2
    ELSE IF role = "Marksman" /\ AllyRoleCount("Marksman", ally_picks) = 0 THEN 2
    ELSE IF role \in {"Mage", "Assassin"}
              /\ AllyRoleCount("Mage", ally_picks) + AllyRoleCount("Assassin", ally_picks) = 0
         THEN 2
    ELSE 0

\* the reasons of _calculate_role_balance_score
RoleBalanceReasons(hero_role, ally_picks) ==
    IF NeededRole(hero_role, ally_picks) >= 3 THEN << <<"Critically needed", hero_role>> >>
    ELSE IF NeededRole(hero_role, ally_picks) > 0
         THEN << <<"Fills needed role", hero_role>> >>
    ELSE IF AllyRoleCount(hero_role, ally_picks) >= 2
         THEN << <<"Too many already", hero_role>> >>
    ELSE IF AllyRoleCount(hero_role, ally_picks) = 1
         THEN << <<"Duplicate role", hero_role>> >>
    ELSE <<>>

\* the synergy score: 60 without allies, else 0.7 of the mean pair synergy
\* plus 0.3 of the team synergy
DraftSynergyScore(hero, ally_picks) ==
    IF ally_picks = <<>> THEN Rat(60, 1)
    ELSE Lowest(700 * SumSeq([ i \in 1..Len(ally_picks) |->
                                 GetSynergyScore(hero, ally_picks[i]) ])
                    * PairCount(Len(ally_picks) + 1)
                  + 3 * TeamTotal(Append(ally_picks, hero)) * Len(ally_picks),
                1000 * Len(ally_picks) * PairCount(Len(ally_picks) + 1))

\* the counter score: 60 without enemies, else the mean counter strength
DraftCounterScore(hero, enemy_picks) ==
    IF enemy_picks = <<>> THEN Rat(60, 1)
    ELSE Lowest(SumSeq([ i \in 1..Len(enemy_picks) |->
                           GetCounterScore(hero, enemy_picks[i]) ]),
                Len(enemy_picks))

\* the role balance score
RoleBalanceScore(hero_role, ally_picks) ==
    IF NeededRole(hero_role, ally_picks) > 0
    THEN 70 + NeededRole(hero_role, ally_picks) * 10
    ELSE IF AllyRoleCount(hero_role, ally_picks) >= 2 THEN 30
    ELSE IF AllyRoleCount(hero_role, ally_picks) = 1 THEN 50
    ELSE 60

\* the mean performance_score of the hero's recent matches
AvgPerformance(recent) == Lowest(SumSeq(recent), Len(recent))

\* the meta score: 60 without matches, else the mean performance within 0..100
MetaScore(recent) ==
    IF recent = <<>> THEN Rat(60, 1)
    ELSE IF SumSeq(recent) < 0 THEN Rat(0, 1)
    ELSE IF SumSeq(recent) > 100 * Len(recent) THEN Rat(100, 1)
    ELSE AvgPerformance(recent)

\* the reasons of the meta score; f"{avg_performance:.0f}" rounds half-even
MetaReasons(recent) ==
    IF recent = <<>> THEN << <<"Limited match data">> >>
    ELSE IF SumSeq(recent) >= 80 * Len(recent)
         THEN << <<"Strong meta performance", RoundDiv(SumSeq(recent), Len(recent))>> >>
    ELSE IF SumSeq(recent) >= 70 * Len(recent)
         THEN << <<"Good meta performance", RoundDiv(SumSeq(recent), Len(recent))>> >>
    ELSE IF SumSeq(recent) <= 50 * Len(recent)
         THEN << <<"Weak in current meta", RoundDiv(SumSeq(recent), Len(recent))>> >>
    ELSE <<>>

\* the bonus and penalty of _apply_modifiers, in points
Modifiers(hero, ally_picks) ==
    (IF RoleIn(hero, "Fighter") = "Assassin"
          /\ \E i \in 1..Len(ally_picks) : RoleIn(ally_picks[i], "") = "Assassin"
     THEN 0 - 10 ELSE 0)
    + (IF hero \in {"Valentina", "Paquito", "Yu Zhong", "Jawhead", "Chou"} THEN 5 ELSE 0)
    + (IF hero \in {"Yin", "Valentina", "Khufra", "Estes", "Fanny"} THEN 8 ELSE 0)

\* sum(scores[f] * weights[f]) + modifiers, for the player preference score 60
FinalScore(syn, cnt, role_score, meta, modifiers) ==
    Lowest(25 * syn.n * cnt.d * meta.d + 30 * cnt.n * syn.d * meta.d
             + 15 * meta.n * syn.d * cnt.d
             + (20 * role_score + 10 * 60 + 100 * modifiers) * syn.d * cnt.d * meta.d,
           100 * syn.d * cnt.d * meta.d)

\* min(final_score, 100.0) left out
UncappedAtHundred(x) == x

\* min(x, 100)
CapAtHundred(x) == IF x.n > 100 * x.d THEN Rat(100, 1) ELSE x

\* _calculate_hero_score: the score, capped at 100
DraftHeroScore(hero, request, recent) ==
    CapAtHundred(FinalScore(DraftSynergyScore(hero, request.ally_picks),
                            DraftCounterScore(hero, request.enemy_picks),
                            RoleBalanceScore(RoleIn(hero, "Fighter"), request.ally_picks),
                            MetaScore(recent),
                            Modifiers(hero, request.ally_picks)))

\* _calculate_hero_score: the reasons, cut to five
HeroReasons(hero, request, recent) ==
    FirstFive(SynergyReasons(hero, request.ally_picks)
                \o CounterReasons(hero, request.enemy_picks)
                \o RoleBalanceReasons(RoleIn(hero, "Fighter"), request.ally_picks)
                \o MetaReasons(recent))

\* _calculate_confidence, in hundredths
CalculateConfidence(score, reason_count) ==
    RoundDiv(7 * CapAtHundred(score).n + 60 * Min(reason_count, 5) * CapAtHundred(score).d,
             10 * CapAtHundred(score).d)

\* the heroes of the table that are neither picked nor banned, in table order,
\* of the preferred role when the request names one
Available(request) ==
    SelectSeq(available_heroes,
              LAMBDA h :
                /\ h \notin Range(request.ally_picks \o request.enemy_picks
                                    \o request.ally_bans \o request.enemy_bans)
                /\ request.role_preference # ""
                     => RoleIn(h, "") = request.role_preference)

\* x < y for two scores, the whole parts compared first
ScoreLess(x, y) ==
    \/ x.n \div x.d < y.n \div y.d
    \/ /\ x.n \div x.d = y.n \div y.d
       /\ (x.n % x.d) * y.d < (y.n % y.d) * x.d

RECURSIVE InsertByRational(_, _)
\* one step of the stable descending sort on a rational score
InsertByRational(sorted, x) ==
    IF sorted = <<>> THEN <<x>>
    ELSE IF ~ScoreLess(Head(sorted).score, x.score)
         THEN <<Head(sorted)>> \o InsertByRational(Tail(sorted), x)
         ELSE <<x>> \o sorted

RECURSIVE SortByRational(_, _)
\* list.sort(key = score, reverse = True)
SortByRational(sorted, rest) ==
    IF rest = <<>> THEN sorted
    ELSE SortByRational(InsertByRational(sorted, Head(rest)), Tail(rest))

\* the list without the cut
Uncut(s, n) == s

\* s[:n]
Cut(s, n) == SubSeq(s, 1, Min(n, Len(s)))

\* the HeroPick of a scored hero: score = round(score, 1)
PickOf(x) ==
    [ hero |-> x.hero, score |-> Rat(RoundDiv(10 * x.score.n, x.score.d), 10),
      reasons |-> x.reasons, role |-> RoleIn(x.hero, "Unknown"),
      confidence |-> CalculateConfidence(x.score, Len(x.reasons)) ]

\* _calculate_hero_score of every available hero, in table order
ScoredPicks(available, request, matches) ==
    [ k \in 1..Len(available) |->
        [ hero |-> available[k],
          score |-> DraftHeroScore(available[k], request, Get(matches, available[k], <<>>)),
          reasons |-> HeroReasons(available[k], request, Get(matches, available[k], <<>>)) ] ]

\* the HeroPick objects of a list of scored heroes
PicksOf(scored_heroes) == [ i \in 1..Len(scored_heroes) |-> PickOf(scored_heroes[i]) ]

\* suggest_picks: the reply for a request and the match history read
PicksFor(request, matches) ==
    PicksOf(Cut(SortByRational(<<>>, ScoredPicks(Available(request), request, matches)), 10))

SuggestPicks(request, matches) ==
    /\ hero_picks' = [ request |-> request, matches |-> matches, kind |-> "picks",
                       picks |-> PicksFor(request, matches) ]
    /\ UNCHANGED <<heroes_data, suggestion_count, calls, appearances, last, pinned, threads,
                   store, advised, synergy_query>>

\* the heroes of the table that no side has banned, in table order
AvailableToBan(request) ==
    SelectSeq(available_heroes,
              LAMBDA h : h \notin Range(request.ally_bans \o request.enemy_bans))

\* threat_score of suggest_bans
ThreatScore(hero, ally_picks, meta) ==
    Lowest(4 * SumSeq([ i \in 1..Len(ally_picks) |->
                          Max(0, GetCounterScore(hero, ally_picks[i]) - 50) ]) * meta.d
             + 3 * (meta.n - 50 * meta.d)
             + (IF hero \in {"Yin", "Valentina", "Khufra", "Fanny", "Estes"}
                THEN 200 * meta.d ELSE 0),
           10 * meta.d)

\* the reasons of a ban
BanReasons(hero, ally_picks) ==
    [ i \in 1..Len(SelectSeq(ally_picks, LAMBDA ally : GetCounterScore(hero, ally) >= 85)) |->
        <<"Hard counters",
          SelectSeq(ally_picks, LAMBDA ally : GetCounterScore(hero, ally) >= 85)[i]>> ]
    \o (IF hero \in {"Yin", "Valentina", "Khufra", "Fanny", "Estes"}
        THEN << <<"High priority meta pick">> >> ELSE <<>>)

\* the HeroPick of a ban candidate; the confidence is the default of the schema
BanOf(hero, ally_picks, threat_score) ==
    [ hero |-> hero, score |-> CapAtHundred(threat_score),
      reasons |-> BanReasons(hero, ally_picks), role |-> RoleIn(hero, "Unknown"),
      confidence |-> 100 ]

RECURSIVE BanCandidates(_, _, _)
\* the candidates of a positive threat, in table order
BanCandidates(heroes, request, matches) ==
    IF heroes = <<>> THEN <<>>
    ELSE (IF ThreatScore(Head(heroes), request.ally_picks,
                         MetaScore(Get(matches, Head(heroes), <<>>))).n > 0
          THEN << BanOf(Head(heroes), request.ally_picks,
                        ThreatScore(Head(heroes), request.ally_picks,
                                    MetaScore(Get(matches, Head(heroes), <<>>)))) >>
          ELSE <<>>)
         \o BanCandidates(Tail(heroes), request, matches)

SuggestBans(request, matches) ==
    /\ hero_picks' =
          [ request |-> request, matches |-> matches, kind |-> "bans",
            picks |-> Cut(SortByRational(<<>>, BanCandidates(AvailableToBan(request),
                                                             request, matches)), 5) ]
    /\ UNCHANGED <<heroes_data, suggestion_count, calls, appearances, last, pinned, threads,
                   store, advised, synergy_query>>

DraftRequest(a, e, b, r) ==
    [ ally_picks |-> a, enemy_picks |-> e, ally_bans |-> b, enemy_bans |-> <<>>,
      player_id |-> "", role_preference |-> r ]

\* the lists of at most n of the names, in their order, none twice
PickLists(names, n) ==
    { s \in ListsUpTo(names, n) : \A i, j \in 1..Len(s) : i < j => s[i] # s[j] }

\* the requests of SpecDraft
DraftRequests ==
    { DraftRequest(a, e, b, r) :
        a \in PickLists(<<"Khufra", "Yin", "Paquito", "Clint">>, MaxDraftAlly),
        e \in PickLists(<<"Chang'e", "Pharsa", "Cecilion">>, MaxDraftEnemy),
        b \in { <<>>, <<"Gusion">> },
        r \in { "", "Tank" } }

\* the recent matches of the heroes that have any: performance scores in 0..100
MatchTables ==
    { << >>,
      ("Khufra" :> <<90, 85>>) @@ ("Gusion" :> <<40>>) @@ ("Clint" :> <<75>>)
        @@ ("Valentina" :> <<100, 100>>) @@ ("Franco" :> <<0, 11>>) @@ ("Pharsa" :> <<60>>) }

\* the engine keeps nothing between two calls: a behaviour holds one call
NextDraft ==
    \E request \in DraftRequests, matches \in MatchTables :
        /\ hero_picks = NoPicks
        /\ \/ SuggestPicks(request, matches)
           \/ SuggestBans(request, matches)

SpecDraft == Init /\ [][NextDraft]_vars

-----------------------------------------------------------------------------
(* One call for picks, of either engine.                                   *)

NextPicks ==
    \/ \E req \in WideRequests :
          calls = 0 /\ hero_picks = NoPicks /\ GetPickSuggestions(req)
    \/ \E request \in DraftRequests, matches \in MatchTables :
          calls = 0 /\ hero_picks = NoPicks /\ SuggestPicks(request, matches)

SpecPicks == InitScore /\ [][NextPicks]_vars

-----------------------------------------------------------------------------
(* The registry asked for the synergy of one pair of heroes.               *)

\* the names of the registry tables, and one name they do not hold
RegistryNames ==
    DOMAIN synergy_data \cup UNION { DOMAIN synergy_data[h] : h \in DOMAIN synergy_data }
      \cup {"Zilong"}

\* a caller about to ask for the synergy of two heroes
InitQuery ==
    /\ store \in Stores
    /\ heroes_data = LoadHeroesFromDb(store)
    /\ suggestion_count = EmptyTable
    /\ calls = 0
    /\ appearances = EmptyTable
    /\ last = NoCall
    /\ pinned = NoCall.req
    /\ threads = [ t \in Threads |-> Idle ]
    /\ advised = NoAdvice
    /\ hero_picks = NoPicks
    /\ synergy_query \in { [ hero1 |-> a, hero2 |-> b, score |-> << >> ] :
                              a \in RegistryNames, b \in RegistryNames }

\* synergy_system.get_synergy_score(hero1, hero2)
AskSynergy ==
    /\ synergy_query.score = << >>
    /\ synergy_query' =
          [ synergy_query EXCEPT
              !.score = << GetSynergyScore(synergy_query.hero1, synergy_query.hero2) >> ]
    /\ UNCHANGED <<heroes_data, suggestion_count, calls, appearances, last, pinned, threads,
                   store, advised, hero_picks>>

NextQuery == AskSynergy

SpecQuery == InitQuery /\ [][NextQuery]_vars

-----------------------------------------------------------------------------
(* Two callers on one engine.  The engine takes no lock, and a thread can  *)
(* be preempted between any two reads or writes of self.suggestion_count:  *)
(* each turn of the scoring loop reads the table once, and each turn of    *)
(* the update loop reads it (the .get) and then writes it (the store).     *)

\* the drafts the two callers ask about
ConcRequests ==
    { Request(<<"Fanny">>, <<>>, <<>>, "jungle"),
      Request(<<"Fanny", "Ling">>, <<"Lancelot">>, <<"Chang'e", "Tigreal">>, "gold"),
      Request(AllBans, <<>>, <<>>, "roam") }

\* the entry of the call up to the early return
Entered(req, candidates) ==
    [ Idle EXCEPT !.pc = IF candidates = <<>> THEN "done" ELSE "score",
                  !.req = req, !.candidates = candidates ]

\* thread t calls get_pick_suggestions(req...)
Call(t, req) ==
    /\ threads[t].pc = "idle"
    /\ threads' = [ threads EXCEPT
                      ![t] = Entered(req, Candidates(req.banned, req.enemy, req.ally)) ]
    /\ calls' = calls + 1
    /\ UNCHANGED <<heroes_data, suggestion_count, appearances, last, pinned, store, advised, hero_picks, synergy_query>>

\* one turn of the scoring loop of thread t
ScoreStep(t) ==
    /\ threads[t].pc = "score"
    /\ threads' =
          [ threads EXCEPT
              ![t].scored_heroes =
                  Append(@, ScoreCandidate(suggestion_count,
                                           threads[t].candidates[Len(@) + 1],
                                           threads[t].req.banned, threads[t].req.enemy,
                                           threads[t].req.ally, threads[t].req.role)),
              ![t].pc = IF Len(threads[t].scored_heroes) + 1 = Len(threads[t].candidates)
                        THEN "sort" ELSE "score" ]
    /\ UNCHANGED <<heroes_data, suggestion_count, calls, appearances, last, pinned, store, advised, hero_picks, synergy_query>>

\* the sort and the cut of thread t: from here on its result is fixed
SortStep(t) ==
    /\ threads[t].pc = "sort"
    /\ threads' = [ threads EXCEPT ![t].top_5 = TopFive(threads[t].scored_heroes),
                                   ![t].k = 1, ![t].pc = "get" ]
    /\ appearances' = Noted(appearances, TopFive(threads[t].scored_heroes))
    /\ UNCHANGED <<heroes_data, suggestion_count, calls, last, pinned, store, advised, hero_picks, synergy_query>>

\* self.suggestion_count.get(hero, 0) of the update loop of thread t
GetStep(t) ==
    /\ threads[t].pc = "get"
    /\ threads' =
          [ threads EXCEPT
              ![t].count = Get(suggestion_count, threads[t].top_5[threads[t].k].hero, 0),
              ![t].pc = "store" ]
    /\ UNCHANGED <<heroes_data, suggestion_count, calls, appearances, last, pinned, store, advised, hero_picks, synergy_query>>

\* self.suggestion_count[hero] = ... + 1 of the update loop of thread t
StoreStep(t) ==
    /\ threads[t].pc = "store"
    /\ suggestion_count' =
          Store(suggestion_count, threads[t].top_5[threads[t].k].hero,
                threads[t].count + 1)
    /\ threads' =
          [ threads EXCEPT
              ![t].k = @ + 1,
              ![t].pc = IF threads[t].k = Len(threads[t].top_5) THEN "done" ELSE "get" ]
    /\ UNCHANGED <<heroes_data, calls, appearances, last, pinned, store, advised, hero_picks, synergy_query>>

NextConc ==
    \E t \in Threads :
        \/ \E req \in ConcRequests : Call(t, req)
        \/ ScoreStep(t)
        \/ SortStep(t)
        \/ GetStep(t)
        \/ StoreStep(t)

SpecConc == Init /\ [][NextConc]_vars

-----------------------------------------------------------------------------
(* Properties.                                                             *)

\* every name of the three lists of a request
Listed(req) == Range(req.banned \o req.enemy \o req.ally)

\* C1: every hero of the returned list is a catalog hero that is in none of
\* the banned, enemy and ally lists, and no hero is returned twice; lists
\* that overlap or repeat a name are answered like any other.
C1_ResultAvailable ==
    \A i \in 1..Len(last.result) :
        /\ last.result[i].hero \in CatalogNames
        /\ last.result[i].hero \notin Listed(last.req)
        /\ \A j \in 1..Len(last.result) :
              last.result[j].hero = last.result[i].hero => i = j

\* a call with a name repeated in one list and shared by two lists returned
\* a full list, an ally being the only thing that kept a catalog hero out
C1_Witness ==
    /\ calls > 0
    /\ last.req.banned = <<"Lancelot", "Lancelot">>
    /\ "Lancelot" \in Range(last.req.enemy)
    /\ "Tigreal" \in Range(last.req.ally) \cap CatalogNames
    /\ Len(last.result) = 5

\* C2: the score of every returned suggestion lies in [0, 100] (scores are
\* in hundredths), whatever the draft, the lane and the counter table.
C2_ScoreInRange ==
    \A i \in 1..Len(last.result) :
        last.result[i].score >= 0 /\ last.result[i].score <= 10000

\* a call on a used counter table with every adaptive rule but the ban rule
\* firing returned a hero scored above 60 and one scored below 25
C2_Witness ==
    /\ calls > 0
    /\ last.before # EmptyTable
    /\ RuleLateDraft(last.req.enemy, last.req.ally)
    /\ RuleEnemyPattern(last.req.enemy)
    /\ RuleMissingRole(last.req.ally, last.req.role)
    /\ RuleWinCondition(last.req.ally)
    /\ \E i \in 1..Len(last.result) : last.result[i].score > 6000
    /\ \E i \in 1..Len(last.result) : last.result[i].score < 2500

\* C3: the weights _calculate_dynamic_weights returns sum to exactly 1 and
\* none of them is negative.
C3_WeightsNormalised ==
    /\ \A k \in DOMAIN last.weights :
          ~FNegative([ c |-> last.weights[k].num, e |-> last.weights[k].err ])
    /\ SumSeq([ i \in 1..5 |-> last.weights[WeightKeys[i]].num ])
          = last.weights.counter.den

\* x is ranked ahead of y: the higher score, or the same score and the
\* earlier place in the catalog
Ahead(x, y) ==
    \/ x.score > y.score
    \/ x.score = y.score /\ CatalogIndex(x.hero) < CatalogIndex(y.hero)

\* C4: what a call returns is fixed by the catalog, the request and the
\* counter table it read: the returned list is the first five of the scored
\* candidates in the order of descending score, equal scores in catalog
\* order, each with the score and reasons computed for it.
C4_RankedByScoreThenCatalog ==
    /\ Len(last.result) = Min(5, Len(last.scored))
    /\ \A i, j \in 1..Len(last.result) :
          i < j => Ahead(last.result[i], last.result[j])
    /\ \A i \in 1..Len(last.result) :
          \E j \in 1..Len(last.scored) : Suggestion(last.scored[j]) = last.result[i]
    /\ \A j \in 1..Len(last.scored) :
          last.scored[j].hero \notin Appeared(last.result)
              => \A i \in 1..Len(last.result) : Ahead(last.result[i], last.scored[j])

\* a returned list of five with two heroes of the same score next to each
\* other, the earlier one of the catalog first
C4_Witness ==
    /\ calls > 0
    /\ Len(last.result) = 5
    /\ \E i \in 1..4 :
          /\ last.result[i].score = last.result[i + 1].score
          /\ CatalogIndex(last.result[i].hero) < CatalogIndex(last.result[i + 1].hero)

\* C5: when every catalog hero is banned or picked, the call returns the
\* empty list and leaves the counter table as it was.
C5_NoCandidates ==
    (calls > 0 /\ CatalogNames \subseteq Listed(last.req))
        => (last.result = <<>> /\ suggestion_count = last.before)

\* such a call was made on an engine whose counter table was in use
C5_Witness ==
    /\ calls > 1
    /\ CatalogNames \subseteq Listed(last.req)
    /\ last.before # EmptyTable
    /\ last.result = <<>>

\* C6: the counter of a hero is the number of calls so far that returned it;
\* the penalty of every candidate of a call comes from the table as it stood
\* before the call; and the call leaves the table with one more for every
\* returned hero and nothing else changed.
C6_CounterCountsAppearances ==
    /\ \A h \in DOMAIN suggestion_count \cup DOMAIN appearances :
          Get(suggestion_count, h, 0) = Get(appearances, h, 0)
    /\ \A i \in 1..Len(last.scored) :
          last.scored[i].penalty =
              (IF Get(last.before, last.scored[i].hero, 0) = 0 THEN 0
               ELSE IF Get(last.before, last.scored[i].hero, 0) <= 2 THEN 5
               ELSE IF Get(last.before, last.scored[i].hero, 0) <= 4 THEN 10
               ELSE 15)
    /\ DOMAIN suggestion_count = DOMAIN last.before \cup Appeared(last.result)
    /\ \A h \in DOMAIN suggestion_count :
          suggestion_count[h] =
              Get(last.before, h, 0) + (IF h \in Appeared(last.result) THEN 1 ELSE 0)

\* the third call of an engine: one hero was returned by all three, another
\* by the last one only, and a third was penalised without being returned
C6_Witness ==
    /\ calls = 3
    /\ \E h \in DOMAIN suggestion_count : suggestion_count[h] = 3
    /\ \E h \in Appeared(last.result) : suggestion_count[h] = 1
    /\ \E i \in 1..Len(last.scored) :
          /\ last.scored[i].penalty > 0
          /\ last.scored[i].hero \notin Appeared(last.result)

\* C7: when two calls run concurrently on one engine no increment is lost:
\* once both have returned, every counter is the number of those calls whose
\* list contained the hero.
C7_NoLostIncrement ==
    (\A t \in Threads : threads[t].pc = "done")
        => \A h \in DOMAIN suggestion_count \cup DOMAIN appearances :
              Get(suggestion_count, h, 0) = Get(appearances, h, 0)

\* the penalty of the candidate `hero` in a recorded call, -1 if it has none
PenaltyIn(call, hero) ==
    IF \E i \in 1..Len(call.scored) : call.scored[i].hero = hero
    THEN (CHOOSE x \in Range(call.scored) : x.hero = hero).penalty
    ELSE -1

\* C8: the penalty never decreases as the count of a hero grows, from one
\* candidate of a call to another and from one call to the next, and the
\* score of a candidate after the penalty is at most its weighted score
\* before the penalty.
C8_PenaltyMonotone ==
    /\ [](\A i \in 1..Len(last.scored) :
            /\ \A j \in 1..Len(last.scored) :
                  Get(last.before, last.scored[i].hero, 0)
                      <= Get(last.before, last.scored[j].hero, 0)
                  => last.scored[i].penalty <= last.scored[j].penalty
            /\ last.scored[i].score
                  <= ScaledRound(last.scored[i].unpenalized.sum,
                                 last.scored[i].unpenalized.den, 100))
    /\ [][\A i \in 1..Len(last.scored) :
            ( /\ PenaltyIn(last', last.scored[i].hero) >= 0
              /\ Get(last'.before, last.scored[i].hero, 0)
                    >= Get(last.before, last.scored[i].hero, 0) )
            => PenaltyIn(last', last.scored[i].hero) >= last.scored[i].penalty]_vars

\* a call in which one candidate carries the full penalty of 15 percent and
\* another none, the penalised one scoring below its weighted score
C8_Witness ==
    /\ \E i \in 1..Len(last.scored) :
          /\ last.scored[i].penalty = 15
          /\ last.scored[i].score
                < ScaledRound(last.scored[i].unpenalized.sum,
                              last.scored[i].unpenalized.den, 100)
    /\ \E i \in 1..Len(last.scored) : last.scored[i].penalty = 0

\* the weights of a request, and which of the five rules fire for it
WeightsOf(req) == CalculateDynamicWeights(req.banned, req.enemy, req.ally, req.role)

Fired(req) ==
    << RuleLateDraft(req.enemy, req.ally), RuleEnemyPattern(req.enemy),
       RuleMissingRole(req.ally, req.role), RuleManyBans(req.banned),
       RuleWinCondition(req.ally) >>

\* rule k fires for req and not for q, and every other rule fires for both
\* or for neither
OnlyRule(k, q, req) ==
    /\ Fired(req)[k] /\ ~Fired(q)[k]
    /\ \A i \in 1..5 : i # k => Fired(q)[i] = Fired(req)[i]

\* the requests that differ from req in one of its four parts
Neighbours(req) ==
    { [ req EXCEPT !.banned = b ] : b \in BanLists }
        \cup { [ req EXCEPT !.enemy = e ] : e \in EnemyLists }
        \cup { [ req EXCEPT !.ally = a ] : a \in AllyLists }
        \cup { [ req EXCEPT !.role = r ] : r \in Roles }

\* the share x is strictly below the share y
ShareBelow(x, y) == x.num * y.den < y.num * x.den

\* C9: against a request for which the rule does not fire and every other
\* rule fires alike, six or more bans raise the pick_priority share, a
\* win-condition ally raises the synergy share and lowers the counter share,
\* three or more enemy picks raise the counter share and lower the synergy
\* share, and a missing target lane raises the role_fit share, all strictly.
C9_RulesMoveShares ==
    calls > 0 =>
        \A q \in Neighbours(last.req) :
            /\ OnlyRule(4, q, last.req)
                  => ShareBelow(WeightsOf(q).pick_priority, last.weights.pick_priority)
            /\ OnlyRule(5, q, last.req)
                  => /\ ShareBelow(WeightsOf(q).synergy, last.weights.synergy)
                     /\ ShareBelow(last.weights.counter, WeightsOf(q).counter)
            /\ OnlyRule(2, q, last.req)
                  => /\ ShareBelow(WeightsOf(q).counter, last.weights.counter)
                     /\ ShareBelow(last.weights.synergy, WeightsOf(q).synergy)
            /\ OnlyRule(3, q, last.req)
                  => ShareBelow(WeightsOf(q).role_fit, last.weights.role_fit)

\* a request for which all four rules fire and each has a neighbour for
\* which it alone does not
C9_Witness ==
    /\ calls > 0
    /\ \A k \in 2..5 : \E q \in Neighbours(last.req) : OnlyRule(k, q, last.req)

\* C10: each of the five scores computed for a candidate lies in [0, 100],
\* the team-composition score also when the redundancy penalty makes the
\* filled-gap total negative.
C10_ScoresInRange ==
    \A i \in 1..Len(last.scored) :
        \A k \in DOMAIN last.scored[i].scores :
            /\ last.scored[i].scores[k].d > 0
            /\ last.scored[i].scores[k].n >= 0
            /\ last.scored[i].scores[k].n <= 100 * last.scored[i].scores[k].d

\* a candidate whose filled-gap total is negative while some gap is open,
\* scored 0 for team composition
C10_Witness ==
    \E i \in 1..Len(last.scored) :
        /\ GapsFilled(CompositionGaps(MetaOf(last.scored[i].hero), last.req.ally,
                                      KnownOnly(last.req.ally)),
                      RoleCount(MetaOf(last.scored[i].hero), KnownOnly(last.req.ally))) < 0
        /\ MaxGaps(CompositionGaps(MetaOf(last.scored[i].hero), last.req.ally,
                                   KnownOnly(last.req.ally))) > 0
        /\ last.scored[i].scores.team_composition.n = 0

\* the capped points of the hero against, or with, the catalog heroes of a
\* pick list, a name outside the catalog counting nothing
PointsOver(Points(_, _), hero, picks) ==
    SumSeq([ i \in 1..Len(picks) |->
               IF picks[i] \in CatalogNames
               THEN Min(Points(MetaOf(hero), MetaOf(picks[i])), 100) ELSE 0 ])

\* how many names of a pick list are in the catalog
KnownCount(picks) == Cardinality({ i \in 1..Len(picks) : picks[i] \in CatalogNames })

\* the score is 60 when no name of the list is in the catalog, and otherwise
\* the mean of the points over the names that are
NeutralOrMean(score, Points(_, _), hero, picks) ==
    IF KnownCount(picks) = 0
    THEN score.n = 60 * score.d
    ELSE score.n * KnownCount(picks) = PointsOver(Points, hero, picks) * score.d

\* C11: the counter score of a candidate is 60 when the enemy list holds no
\* catalog hero (the empty list included) and otherwise the mean of the
\* per-enemy points over the catalog enemies only; the synergy score is the
\* same over the ally list.  Names outside the catalog are scored past.
C11_NeutralOrMeanOverKnown ==
    \A i \in 1..Len(last.scored) :
        /\ NeutralOrMean(last.scored[i].scores.counter, CounterPoints,
                         last.scored[i].hero, last.req.enemy)
        /\ NeutralOrMean(last.scored[i].scores.synergy, SynergyPoints,
                         last.scored[i].hero, last.req.ally)

\* a call whose enemy list mixes catalog heroes with a name outside the
\* catalog and whose ally list holds such names only: a candidate with a
\* counter score other than 60 and a synergy score of 60
C11_Witness ==
    /\ calls > 0
    /\ KnownCount(last.req.enemy) > 0
    /\ KnownCount(last.req.enemy) < Len(last.req.enemy)
    /\ last.req.ally # <<>>
    /\ KnownCount(last.req.ally) = 0
    /\ \E i \in 1..Len(last.scored) :
          /\ last.scored[i].scores.counter.n # 60 * last.scored[i].scores.counter.d
          /\ last.scored[i].scores.synergy.n = 60 * last.scored[i].scores.synergy.d


\* the last lane-selector call was made on the empty draft
EmptyDraft == last.req.banned = <<>> /\ last.req.enemy = <<>> /\ last.req.ally = <<>>

\* C12: on the empty draft (no bans, no enemy picks, no ally picks)
\* suggest_best_role_and_heroes selects the lane code "jungle", over every
\* catalog and whatever the diversity counter holds.
C12_EmptyDraftJungle ==
    (calls > 0 /\ EmptyDraft) => (advised.lane_code = "jungle" /\ last.req.role = "jungle")

\* the empty draft was asked about on an engine whose counter was not empty
C12_Witness ==
    /\ calls > 0
    /\ EmptyDraft
    /\ DOMAIN last.before # {}
    /\ advised.lane_code = "jungle"
    /\ advised.suggestions # <<>>


\* the lane name the last call asked for
TargetLane == Get(role_map, last.req.role, last.req.role)

\* the lane-fit score of a hero whose affinity list is lanes, by the place
\* of the target lane in it
FitByPlace(lanes, target) ==
    IF Len(lanes) >= 1 /\ lanes[1] = target THEN 100
    ELSE IF Len(lanes) >= 2 /\ lanes[2] = target THEN 75
    ELSE IF Len(lanes) >= 3 /\ lanes[3] = target THEN 50
    ELSE IF \E k \in 4..Len(lanes) : lanes[k] = target THEN 30
    ELSE 5

\* C13: the lane-fit score of a candidate is 100, 75, 50 or 30 when the
\* requested lane is first, second, third or later in the hero's ordered
\* lane list, and 5 when it is not in the list; a hero without lane data
\* scores 5 for every lane.
C13_LaneFitByPosition ==
    \A i \in 1..Len(last.scored) :
        /\ last.scored[i].scores.role_fit
             = Rat(FitByPlace(LanesOf(last.scored[i].hero), TargetLane), 1)
        /\ LanesOf(last.scored[i].hero) = <<>> => last.scored[i].scores.role_fit = Rat(5, 1)

\* candidates scored 100, 50 and 5 in one call, the 50 for a third lane
C13_Witness ==
    /\ \E i \in 1..Len(last.scored) :
          /\ Len(LanesOf(last.scored[i].hero)) >= 3
          /\ LanesOf(last.scored[i].hero)[3] = TargetLane
          /\ last.scored[i].scores.role_fit = Rat(50, 1)
    /\ \E i \in 1..Len(last.scored) : last.scored[i].scores.role_fit = Rat(100, 1)
    /\ \E i \in 1..Len(last.scored) :
          /\ LanesOf(last.scored[i].hero) # <<>>
          /\ last.scored[i].scores.role_fit = Rat(5, 1)


\* C14: in the table-driven engine, every hero returned by suggest_picks
\* carries the reason "Hard counters X" for every picked enemy X against
\* whom its registry counter score is 85 or more, whatever the ally picks
\* and the other enemy picks are.
C14_HardCounterReasonKept ==
    hero_picks.kind = "picks" =>
    \A pick \in Range(hero_picks.picks) :
        \A i \in 1..Len(hero_picks.request.enemy_picks) :
            GetCounterScore(pick.hero, hero_picks.request.enemy_picks[i]) >= 85
            => \E k \in 1..Len(pick.reasons) :
                  /\ pick.reasons[k][1] = "Hard counters"
                  /\ pick.reasons[k][2] = hero_picks.request.enemy_picks[i]


\* C15: a ranking call on an engine whose catalog holds no hero is answered
\* with a configuration error, which the caller can tell from the empty
\* list returned when every catalog hero is banned or picked: it is not
\* answered with the empty list.
C15_EmptyCatalogNotEmptyList ==
    (calls > 0 /\ heroes_data = <<>>) => last.result # <<>>

\* the names of a complete attribute bundle
BundleNames == DOMAIN Mk("", <<>>, 0, 0, 0, 0, 0)

\* the row of the heroes table carries a complete attribute bundle
Complete(hero) ==
    /\ "attributes" \in DOMAIN GetMeta(hero)
    /\ BundleNames \subseteq DOMAIN GetMeta(hero).attributes

\* C17: the catalog holds the heroes of the table whose attribute bundle is
\* complete and no other hero, so that a hero with an incomplete bundle is
\* in no suggestion list.
C17_IncompleteLeftOut ==
    /\ \A i \in 1..Len(store) : Complete(store[i]) <=> store[i].name \in CatalogNames
    /\ \A k \in 1..Len(last.result) :
          \E i \in 1..Len(store) :
              store[i].name = last.result[k].hero /\ Complete(store[i])


\* the rationals x and y are the same number
SameNumber(x, y) == x.n * y.d = y.n * x.d

\* C16: a name of the ally picks that is not in the catalog contributes
\* nothing to the composition aggregate: the team-composition score of
\* every candidate is the score it has with the ally list without such
\* names.
C16_UnknownAllyAddsNothing ==
    \A i \in 1..Len(last.scored) :
        SameNumber(last.scored[i].scores.team_composition,
                   CalculateTeamCompositionScore(MetaOf(last.scored[i].hero),
                                                 KnownOnly(last.req.ally)))


\* the number of entries of the list that name the hero
TimesIn(suggestions, h) ==
    Cardinality({ k \in 1..Len(suggestions) : suggestions[k].hero = h })

\* C18: a call of suggest_best_role_and_heroes(b, e, a) that reports the
\* lane code L changes the engine as get_pick_suggestions(b, e, a, L) does
\* from the same counter, and returns what that call returns: the same
\* suggestions, and one increment of the counter per returned hero.
C18_SuggestIsRankingForLane ==
    [][ calls' = calls + 1
          => /\ Ranked(Request(last'.req.banned, last'.req.enemy, last'.req.ally,
                               advised'.lane_code))
             /\ advised'.suggestions = last'.result
             /\ DOMAIN suggestion_count'
                  = DOMAIN suggestion_count
                      \cup { advised'.suggestions[k].hero :
                               k \in 1..Len(advised'.suggestions) }
             /\ \A h \in DOMAIN suggestion_count' :
                   suggestion_count'[h]
                     = Get(suggestion_count, h, 0) + TimesIn(advised'.suggestions, h) ]_vars

\* a lane other than jungle was reported with suggestions that were
\* penalized for earlier appearances
C18_Witness ==
    /\ calls > 1
    /\ advised.lane_code \in {"exp", "mid"}
    /\ advised.suggestions # <<>>
    /\ DOMAIN last.before # {}
    /\ \E k \in 1..Len(last.scored) : last.scored[k].penalty > 0


\* the score computed for the hero in the last call
ScoredAs(hero) ==
    last.scored[CHOOSE j \in 1..Len(last.scored) : last.scored[j].hero = hero].score

\* C19: get_pick_suggestions returns min(5, number of candidates)
\* suggestions in the order of non-increasing penalized score, and no
\* candidate that was left out has a penalized, rounded score above the
\* lowest score returned.
C19_BestFiveReturned ==
    calls > 0
    => /\ Len(last.result) = Min(5, Cardinality(CatalogNames \ Listed(last.req)))
       /\ \A i \in 1..(Len(last.result) - 1) :
             last.result[i].score >= last.result[i + 1].score
       /\ \A i \in 1..Len(last.result) :
             last.result[i].score = ScoredAs(last.result[i].hero)
       /\ \A h \in (CatalogNames \ Listed(last.req)) \ Appeared(last.result) :
             ScoredAs(h) <= last.result[Len(last.result)].score

\* more than five candidates, one of the returned ones penalized, one left
\* out with a score below the lowest returned
C19_Witness ==
    /\ calls > 1
    /\ Len(last.scored) > 5
    /\ Len(last.result) = 5
    /\ \E j \in 1..Len(last.scored) :
          /\ last.scored[j].hero \in Appeared(last.result)
          /\ last.scored[j].penalty > 0
    /\ \E j \in 1..Len(last.scored) :
          /\ last.scored[j].hero \notin Appeared(last.result)
          /\ last.scored[j].score < last.result[5].score


\* the lanes that are not the primary lane of an ally pick of the catalog
OpenLanes(ally_picks) ==
    { code \in Range(LaneCodes) :
        \A i \in 1..Len(ally_picks) :
            (Known(ally_picks[i]) /\ LanesOf(ally_picks[i]) # <<>>)
                => LanesOf(ally_picks[i])[1] # role_map[code] }

\* C20: the lane code suggest_best_role_and_heroes recommends is one of exp,
\* jungle, mid, gold and roam; while a lane is open for the ally team it is
\* an open lane, hence the open lane when there is exactly one.
C20_RecommendsOpenLane ==
    calls > 0
    => /\ advised.lane_code \in {"exp", "jungle", "mid", "gold", "roam"}
       /\ advised.recommended_lane = role_map[advised.lane_code]
       /\ OpenLanes(last.req.ally) # {} => advised.lane_code \in OpenLanes(last.req.ally)
       /\ Cardinality(OpenLanes(last.req.ally)) = 1
             => OpenLanes(last.req.ally) = { advised.lane_code }

\* four known allies left the EXP lane alone open, and it was recommended
C20_Witness ==
    /\ calls > 0
    /\ OpenLanes(last.req.ally) = {"exp"}
    /\ advised.lane_code = "exp"
    /\ Len(last.req.ally) = 4


C30_BansStillAvailable ==
    hero_picks.kind = "bans" =>
        \A i \in 1..Len(hero_picks.picks) :
            hero_picks.picks[i].hero
              \notin Range(hero_picks.request.ally_bans \o hero_picks.request.enemy_bans
                             \o hero_picks.request.ally_picks
                             \o hero_picks.request.enemy_picks)


\* the high-impact lanes the enemy has picked into: the primary lanes of the
\* catalog enemies that are jungle or mid
ContestedLanes(enemy_picks) ==
    { code \in {"jungle", "mid"} :
        \E i \in 1..Len(enemy_picks) :
            /\ Known(enemy_picks[i])
            /\ LanesOf(enemy_picks[i]) # <<>>
            /\ LanesOf(enemy_picks[i])[1] = role_map[code] }

\* C22: in the first-pick regime (at most four picks, none of them an
\* ally's) the recommended lane is a lane that is the primary lane of an
\* enemy pick when some enemy pick, at whatever place of the enemy list, has
\* jungle or mid as its primary lane, and it is jungle otherwise.
C22_ContestsAnyEnemyLane ==
    (calls > 0 /\ IsFirstPick(last.req.enemy, last.req.ally))
    => IF ContestedLanes(last.req.enemy) # {}
       THEN advised.lane_code \in ContestedLanes(last.req.enemy)
       ELSE advised.lane_code = "jungle"


\* the importance of a lane in the strategic score
ClaimedImportance == [ jungle |-> 100, mid |-> 90, exp |-> 80, gold |-> 75, roam |-> 70 ]

\* 40 * enemy-threat + 35 * composition-need + 25 * lane-importance of a
\* lane for the last request, the importance taken as a share of 100
StrategicScore(lane) ==
    Lowest(4000 * AssessEnemyLaneThreat(lane, last.req.enemy).n
                * AssessCompositionNeed(lane, last.req.ally).d
             + 3500 * AssessCompositionNeed(lane, last.req.ally).n
                    * AssessEnemyLaneThreat(lane, last.req.enemy).d
             + 25 * ClaimedImportance[lane]
                  * AssessEnemyLaneThreat(lane, last.req.enemy).d
                  * AssessCompositionNeed(lane, last.req.ally).d,
           100 * AssessEnemyLaneThreat(lane, last.req.enemy).d
               * AssessCompositionNeed(lane, last.req.ally).d)

\* the place of a lane code in the order exp, jungle, mid, gold, roam
LanePlace(lane) == CHOOSE i \in 1..Len(LaneCodes) : LaneCodes[i] = lane

C24_NoAlliesCompositionNeutral ==
    last.req.ally = <<>>
    => \A i \in 1..Len(last.scored) :
          last.scored[i].scores.team_composition.n
            = 60 * last.scored[i].scores.team_composition.d


\* C25: a hero of the list one call returned has a prior-appearance count
\* of at least 1 in the call that follows it, and when that call scores the
\* hero it applies a penalty above zero to it.
C25_CounterOutlivesCall ==
    [][ (calls > 0 /\ calls' = calls + 1)
        => \A h \in Appeared(last.result) :
              /\ Get(last'.before, h, 0) >= 1
              /\ \A i \in 1..Len(last'.scored) :
                    last'.scored[i].hero = h => last'.scored[i].penalty > 0 ]_vars


\* C26: the synergy score of a pair is the score of the pair the other way
\* round; it is the tabulated score when the table holds the pair in either
\* direction (so the two directions, when both are held, hold one value) and
\* 60 when it holds the pair in neither.
C26_SynergySymmetric ==
    synergy_query.score # << >>
    => /\ synergy_query.score[1]
            = GetSynergyScore(synergy_query.hero2, synergy_query.hero1)
       /\ Held(synergy_data, synergy_query.hero1, synergy_query.hero2)
            => synergy_query.score[1]
                 = synergy_data[synergy_query.hero1][synergy_query.hero2]
       /\ Held(synergy_data, synergy_query.hero2, synergy_query.hero1)
            => synergy_query.score[1]
                 = synergy_data[synergy_query.hero2][synergy_query.hero1]
       /\ (/\ ~Held(synergy_data, synergy_query.hero1, synergy_query.hero2)
           /\ ~Held(synergy_data, synergy_query.hero2, synergy_query.hero1))
            => synergy_query.score[1] = 60

\* a pair asked for that the table holds under the second hero alone, of a
\* score other than 60
C26_Witness ==
    /\ synergy_query.score # << >>
    /\ ~Held(synergy_data, synergy_query.hero1, synergy_query.hero2)
    /\ Held(synergy_data, synergy_query.hero2, synergy_query.hero1)
    /\ synergy_query.score[1] # 60


\* C27: the penalty of a candidate is 0 percent for 0 prior appearances, 5
\* for 1 or 2, 10 for 3 or 4 and 15 for 5 or more, and its score after the
\* penalty is not below 85 percent of its weighted score (both to two
\* decimal places, in hundredths).
C27_PenaltyStepsAtMostFifteen ==
    \A i \in 1..Len(last.scored) :
        /\ Get(last.before, last.scored[i].hero, 0) = 0 => last.scored[i].penalty = 0
        /\ Get(last.before, last.scored[i].hero, 0) \in {1, 2} => last.scored[i].penalty = 5
        /\ Get(last.before, last.scored[i].hero, 0) \in {3, 4} => last.scored[i].penalty = 10
        /\ Get(last.before, last.scored[i].hero, 0) >= 5 => last.scored[i].penalty = 15
        /\ last.scored[i].score
              >= ScaledRound(last.scored[i].unpenalized.sum,
                             last.scored[i].unpenalized.den, 85)

\* a call that scored one hero returned five times before and another
\* returned three or four times before, the first at 85 percent of a
\* weighted score above zero
C27_Witness ==
    /\ \E i \in 1..Len(last.scored) :
          /\ Get(last.before, last.scored[i].hero, 0) >= 5
          /\ last.scored[i].score > 0
          /\ last.scored[i].score
                = ScaledRound(last.scored[i].unpenalized.sum,
                              last.scored[i].unpenalized.den, 85)
    /\ \E i \in 1..Len(last.scored) : Get(last.before, last.scored[i].hero, 0) \in {3, 4}


\* the entry of the scored list for a hero of the returned list
ScoredOf(hero) ==
    last.scored[CHOOSE k \in 1..Len(last.scored) : last.scored[k].hero = hero]

Settled ==
    /\ calls > 0
    /\ \A i \in 1..Len(last.result) :
          CalculateDiversityPenalty(last.before, last.result[i].hero) = 15

\* C29: over the calls of one engine the counter of a hero never decreases and
\* its penalty moves only upwards through 0, 5, 10 and 15 percent, one step at
\* a time; asked the same request again and again, the engine reaches a call
\* that changes no penalty while calls are still to come, and from that call
\* on it returns the same list.
C29_CountersGrowListSettles ==
    /\ [][\A h \in DOMAIN suggestion_count' :
            /\ Get(suggestion_count', h, 0) >= Get(suggestion_count, h, 0)
            /\ CalculateDiversityPenalty(suggestion_count, h) \in {0, 5, 10, 15}
            /\ CalculateDiversityPenalty(suggestion_count', h)
                  - CalculateDiversityPenalty(suggestion_count, h) \in {0, 5}]_vars
    /\ [][DOMAIN suggestion_count \subseteq DOMAIN suggestion_count']_vars
    /\ [][Settled => (Settled' /\ last'.result = last.result)]_vars
    /\ <>(Settled /\ calls < MaxRepeat)

\* the list has settled with calls still to come, after a hero that was
\* returned by an earlier call has left it
C29_Witness ==
    /\ Settled
    /\ calls < MaxRepeat
    /\ \E h \in DOMAIN appearances :
          /\ appearances[h] > 0
          /\ h \notin Appeared(last.result)

=============================================================================
